---------------------------- MODULE Spec2Model ----------------------------
(***************************************************************************)
(* Model of the cat body-metrics estimation engine                         *)
(* (app/services/analysis_cat.py), of the detector that feeds it           *)
(* (app/services/detect_cat.py) and of the vision endpoint that calls both *)
(* (app/api/vision.py).                                                    *)
(*                                                                         *)
(* Number representation.  The program computes with floats and rounds its *)
(* outputs with round(x, n).  The model keeps every rounded quantity as an *)
(* integer count of its last decimal:                                      *)
(*    lengths and circumferences (round(.., 1))  in tenths of a cm,        *)
(*    weight, bmi, confidence    (round(.., 2))  in hundredths,            *)
(* and every unrounded intermediate value as an exact fraction n/d.        *)
(* round() is decimal rounding of the exact value.  The binary             *)
(* representation error of the floats decides the direction of round()     *)
(* only where the exact value lies exactly halfway between two decimals:   *)
(* for body_length_cm, which is rounded from a product of the box sizes,   *)
(* the direction the double arithmetic takes is tabulated                  *)
(* (BodyLengthRoundsUp); the other roundings go half to even.  pi is the   *)
(* fraction PiNum/PiDen.                                                    *)
(* Pixel coordinates handed to analyze_cat are integers (detect_cat        *)
(* truncates with int()); detector coordinates are in half pixels.         *)
(***************************************************************************)
EXTENDS Integers, Sequences, FiniteSets, TLC

(***************************************************************************)
(* Bounds of the model                                                     *)
(***************************************************************************)
\* box widths and heights are 1..MaxPix pixels and 100, 200, .. 100*MaxPix
MaxPix == 8
\* a directly called box is at most MaxAspect times wider than high
MaxAspect == 8
\* detector coordinates are 0..MaxHalf half pixels
MaxHalf == 2
\* the detector reports at most MaxCats cats in one image
MaxCats == 2
\* analyze_cat is called at most MaxCalls times with the same arguments
MaxCalls == 2
\* at most MaxThreads threads are inside analyze_cat at the same time
MaxThreads == 2
\* number of requests to the vision endpoint
MaxRequests == 2
\* number of get_detector and reset_detector calls in a behaviour
MaxDetectorCalls == 6
\* number of is_allowed calls in a behaviour, and the last second of the clock
MaxLimiterCalls == 5
MaxTime == 3
\* number of coroutines that use the connection pool
MaxCoroutines == 2
\* number of requests to the basket endpoints
MaxBasketRequests == 2
\* a color string handed to process_cat_color has at most MaxColorLen characters
MaxColorLen == 3

(***************************************************************************)
(* Arithmetic helpers                                                      *)
(***************************************************************************)
Max(a, b) == IF a >= b THEN a ELSE b
Min(a, b) == IF a <= b THEN a ELSE b

\* round(n/d) to the nearest integer, half to even (d > 0)
RoundDiv(n, d) ==
    LET q == n \div d
        r == n % d
    IN  IF 2 * r > d \/ (2 * r = d /\ q % 2 = 1) THEN q + 1 ELSE q

\* <<q, r>> with a*b = q*c + r and 0 <= r < c, computed without forming a*b
\* (the product does not fit TLC's 32-bit integers)
RECURSIVE MulDivMod(_, _, _)
MulDivMod(a, b, c) ==
    IF b = 0 THEN <<0, 0>>
    ELSE LET half == MulDivMod(a, b \div 2, c)
             add  == IF b % 2 = 1 THEN a ELSE 0
             r    == 2 * half[2] + (add % c)
         IN  <<2 * half[1] + (add \div c) + (r \div c), r % c>>

\* round(n/d) to the nearest integer where a value halfway goes up exactly
\* when up holds (d > 0)
RoundTie(n, d, up) ==
    LET q == n \div d
        r == n % d
    IN  IF 2 * r > d \/ (2 * r = d /\ up) THEN q + 1 ELSE q

\* round(a*b/c), half to even
RoundMulDiv(a, b, c) ==
    LET qr == MulDivMod(a, b, c)
    IN  IF 2 * qr[2] > c \/ (2 * qr[2] = c /\ qr[1] % 2 = 1)
        THEN qr[1] + 1 ELSE qr[1]

\* math.pi as a fraction
PiNum == 355
PiDen == 113

(***************************************************************************)
(* Global references (analysis_cat.py)                                     *)
(***************************************************************************)
REAL_TORSO_HEIGHT_CM == 25

\* the modifiers in hundredths
BREED_MODIFIER ==
    [maine_coon |-> 115, ragdoll |-> 110, british_shorthair |-> 105,
     persian |-> 103, siamese |-> 95, bengal |-> 102, scottish_fold |-> 100,
     russian_blue |-> 98, sphynx |-> 93, munchkin |-> 85,
     domestic_shorthair |-> 100, domestic_longhair |-> 102, unknown |-> 100]

AGE_WEIGHT_MODIFIER ==
    [kitten |-> 30, young |-> 70, adult |-> 100, senior |-> 95]

\* (variant: a missing key gives 0 instead of the default)
DictGet_nodefault(dict, key, default) ==
    IF key \in DOMAIN dict THEN dict[key] ELSE 0

\* dict.get(key, default)
DictGet(dict, key, default) ==
    IF key \in DOMAIN dict THEN dict[key] ELSE default

(***************************************************************************)
(* estimate_posture: the posture and the posture factor in hundredths.     *)
(* ratio = w / max(h, 1) is compared with 1.6, 1.4, 0.8 and 1.0 by cross   *)
(* multiplication.                                                         *)
(***************************************************************************)
\* (variant: the first comparison written >=)
estimate_posture_ge(w, h) ==
    LET d == Max(h, 1)
    IN  IF 10 * w >= 16 * d THEN <<"lying", 85>>
        ELSE IF 10 * w > 14 * d THEN <<"curled", 88>>
        ELSE IF 10 * w < 8 * d THEN <<"sitting", 92>>
        ELSE IF 10 * w < 10 * d THEN <<"standing", 100>>
        ELSE <<"standing", 98>>

estimate_posture(w, h) ==
    LET d == Max(h, 1)
    IN  IF 10 * w > 16 * d THEN <<"lying", 85>>
        ELSE IF 10 * w > 14 * d THEN <<"curled", 88>>
        ELSE IF 10 * w < 8 * d THEN <<"sitting", 92>>
        ELSE IF 10 * w < 10 * d THEN <<"standing", 100>>
        ELSE <<"standing", 98>>

(***************************************************************************)
(* estimate_body_condition: bmi = weight*1000 / body_length_cm^2 with the  *)
(* weight in hundredths of a kg and the length in tenths of a cm, so       *)
(* bmi*100 = weight * 100000 / body_length_cm^2.  A bound b of the tier    *)
(* table is an integer number of hundredths, so bmi < b exactly when the   *)
(* floor of bmi*100 is below 100*b.  A zero body_length_cm raises          *)
(* ZeroDivisionError.                                                      *)
(***************************************************************************)
\* (variant: the bound of the ideal tier written <=)
bcs_tier_le(bmi, exact) ==
    IF bmi < 350 THEN <<3, "underweight", "too thin, should gain weight">>
    ELSE IF bmi < 450 THEN <<4, "lean", "lean but within the normal range">>
    ELSE IF bmi < 600 \/ (bmi = 600 /\ exact)
         THEN <<5, "ideal", "healthy weight">>
    ELSE IF bmi < 750 THEN <<6, "overweight", "slightly overweight, should be watched">>
    ELSE IF bmi < 900 THEN <<7, "overweight", "overweight, should lose weight">>
    ELSE <<8, "obese", "obese, see a veterinarian">>

\* the if/elif chain on bmi; bmi is the floor of bmi*100 and exact tells
\* whether bmi*100 is that integer exactly
bcs_tier(bmi, exact) ==
    IF bmi < 350 THEN <<3, "underweight", "too thin, should gain weight">>
    ELSE IF bmi < 450 THEN <<4, "lean", "lean but within the normal range">>
    ELSE IF bmi < 600 THEN <<5, "ideal", "healthy weight">>
    ELSE IF bmi < 750 THEN <<6, "overweight", "slightly overweight, should be watched">>
    ELSE IF bmi < 900 THEN <<7, "overweight", "overweight, should lose weight">>
    ELSE <<8, "obese", "obese, see a veterinarian">>

\* (variant: the chest takes the place of one factor of the squared length)
estimate_body_condition_chest(chest_cm, weight, body_length_cm) ==
    IF chest_cm * body_length_cm = 0
    THEN [exception |-> "ZeroDivisionError"]
    ELSE LET den == chest_cm * body_length_cm
             bmi == MulDivMod(weight, 100000, den)
             tier == bcs_tier(bmi[1], bmi[2] = 0)
         IN  [bcs_score |-> tier[1], condition |-> tier[2],
              description |-> tier[3],
              bmi |-> RoundMulDiv(weight, 100000, den)]

estimate_body_condition(chest_cm, weight, body_length_cm) ==
    IF body_length_cm * body_length_cm = 0
    THEN [exception |-> "ZeroDivisionError"]
    ELSE LET den == body_length_cm * body_length_cm
             bmi == MulDivMod(weight, 100000, den)
             tier == bcs_tier(bmi[1], bmi[2] = 0)
         IN  [bcs_score |-> tier[1], condition |-> tier[2],
              description |-> tier[3],
              bmi |-> RoundMulDiv(weight, 100000, den)]

(***************************************************************************)
(* estimate_body_metrics.  torso_ratio is kept in twentieths (0.55 =       *)
(* 11/20), so effective_height = h*torso/20 and                            *)
(* pixel_to_cm = 25 / max(effective_height, 1) = 25*20 / max(h*torso, 20). *)
(***************************************************************************)
\* (variant: the standing torso ratio is 0.6)
torso_ratio_standing_sitting ==
    [lying |-> 11, curled |-> 10, sitting |-> 12, standing |-> 12]

torso_ratio == [lying |-> 11, curled |-> 10, sitting |-> 12, standing |-> 13]

\* w = max(x2 - x1, 1)
bbox_w(bbox) == Max(bbox[3] - bbox[1], 1)

\* (variant: the height without the floor)
bbox_h_unfloored(bbox) == bbox[4] - bbox[2]

\* (variant: the corners subtracted the other way round, without the floor)
bbox_h_swapped(bbox) == bbox[2] - bbox[4]

\* h = max(y2 - y1, 1)
bbox_h(bbox) == Max(bbox[4] - bbox[2], 1)

\* (variant: rounded to a whole cm)
neck_of_chest_round0(chest_cm) == RoundDiv(chest_cm * 62, 1000) * 10

\* neck_cm = round(chest_cm * 0.62, 1)
neck_of_chest(chest_cm) == RoundDiv(chest_cm * 62, 100)

\* waist_cm = round(chest_cm * 0.85, 1)
waist_of_chest(chest_cm) == RoundDiv(chest_cm * 85, 100)

\* back_length_cm = round(body_length_cm * 0.75, 1)
back_of_body_length(body_length_cm) == RoundDiv(body_length_cm * 75, 100)

\* (variant: the thresholds written >=)
quality_flag_of_ge(confidence) ==
    IF confidence >= 85 THEN "excellent"
    ELSE IF confidence >= 75 THEN "good"
    ELSE IF confidence >= 60 THEN "medium"
    ELSE "poor"

\* the if/elif chain on the rounded confidence (in hundredths)
quality_flag_of(confidence) ==
    IF confidence > 85 THEN "excellent"
    ELSE IF confidence > 75 THEN "good"
    ELSE IF confidence > 60 THEN "medium"
    ELSE "poor"

\* round(w * pixel_to_cm * (1.0 or 0.9), 1) is taken on binary floats.  For
\* some w by h the exact product lies halfway between two tenths; the double
\* product then lies just above or just below it, depending on w and h and
\* not on w/h alone.  These are the w by h among the box sizes of the model
\* for which IEEE-754 double arithmetic rounds such a value up; for the
\* others (100 by 600 among them) it rounds down.
BodyLengthRoundsUp ==
    {<<1, 2>>, <<1, 6>>, <<2, 4>>, <<2, 100>>, <<3, 6>>, <<3, 150>>, <<4, 8>>,
     <<4, 200>>, <<6, 300>>, <<6, 500>>, <<7, 150>>, <<8, 400>>, <<100, 200>>,
     <<148, 200>>, <<148, 600>>, <<150, 300>>, <<200, 400>>, <<300, 600>>,
     <<400, 800>>}

\* the divisors of the divisions made for a box, in the order of the code:
\* ratio = w / max(h, 1) in estimate_posture, pixel_to_cm = 25 /
\* max(effective_height, 1) (in twentieths), (w * h) / (300 * 300), and w / h
\* in the aspect score
metrics_divisors(bbox) ==
    LET w == bbox_w(bbox)
        h == bbox_h(bbox)
    IN  <<Max(h, 1), Max(h * torso_ratio[estimate_posture(w, h)[1]], 20), 300 * 300, h>>

\* a division by zero raises ZeroDivisionError
estimate_body_metrics(bbox) ==
    IF \E i \in DOMAIN metrics_divisors(bbox) : metrics_divisors(bbox)[i] = 0
    THEN [exception |-> "ZeroDivisionError"]
    ELSE
    LET w == bbox_w(bbox)
        h == bbox_h(bbox)
        pp == estimate_posture(w, h)
        posture == pp[1]
        posture_factor == pp[2]
        \* pixel_to_cm = ptcNum / ptcDen
        ptcNum == REAL_TORSO_HEIGHT_CM * 20
        ptcDen == Max(h * torso_ratio[posture], 20)
        \* w * pixel_to_cm * (1.0 or 0.9), times 10 for tenths
        body_length_cm ==
            RoundTie(w * ptcNum * (IF posture \in {"lying", "curled"} THEN 10 ELSE 9),
                     ptcDen, <<w, h>> \in BodyLengthRoundsUp)
        \* pi * (w * pixel_to_cm) * 0.6 * posture_factor, times 10 for tenths:
        \* the factor 0.6 * 10 / 100 of ptcNum * posture_factor is taken out
        chest_cm == RoundDiv(PiNum * w * ((ptcNum * 6) \div 100) * posture_factor,
                             PiDen * ptcDen)
        neck_cm == neck_of_chest(chest_cm)
        waist_cm == waist_of_chest(chest_cm)
        back_length_cm == back_of_body_length(body_length_cm)
        \* h * pixel_to_cm * 0.35, times 10 for tenths
        leg_length_cm == RoundDiv(h * ptcNum * 35, ptcDen * 10)
        \* size_ratio = sizeNum / 90000
        sizeNum == Min(300 * 300, w * h)
        aspect_score == IF 5 * h < 10 * w /\ 10 * w < 20 * h THEN 10 ELSE 6
        posture_clarity == IF posture \in {"standing", "sitting"} THEN 9 ELSE 7
        \* (size_ratio*0.5 + aspect_score*0.3 + posture_clarity*0.2) * 100
        confidence ==
            RoundDiv(50 * sizeNum + (3 * aspect_score + 2 * posture_clarity) * (300 * 300),
                     300 * 300)
        quality_flag == quality_flag_of(confidence)
    IN  [posture |-> posture, chest_cm |-> chest_cm, neck_cm |-> neck_cm,
         waist_cm |-> waist_cm, body_length_cm |-> body_length_cm,
         back_length_cm |-> back_length_cm, leg_length_cm |-> leg_length_cm,
         confidence |-> confidence, quality_flag |-> quality_flag]

(***************************************************************************)
(* estimate_weight: chest_cm^2 * body_length_cm / 3000 * breed * age,      *)
(* rounded to hundredths.  With chest and length in tenths and the         *)
(* modifiers in hundredths the exact value in hundredths of a kg is        *)
(*   chest^2 * length * breed * age / (1000 * 3000 * 100 * 100 / 100).     *)
(***************************************************************************)
\* the body of estimate_weight, reading the two module-level dicts as they
\* are at the time of the call
estimate_weight_reading(breed_mod, age_mod, chest_cm, body_length_cm, breed, age_category) ==
    LET den == 1000 * 3000 * 100
        mods == DictGet(breed_mod, breed, 100)
                  * DictGet(age_mod, age_category, 100)
        \* chest^2 * length = q1*den + r1
        base == MulDivMod(chest_cm * chest_cm, body_length_cm, den)
        \* r1 * mods = q2*den + r2
        rest == MulDivMod(base[2], mods, den)
        q == base[1] * mods + rest[1]
    IN  IF 2 * rest[2] > den \/ (2 * rest[2] = den /\ q % 2 = 1)
        THEN q + 1 ELSE q

estimate_weight(chest_cm, body_length_cm, breed, age_category) ==
    estimate_weight_reading(BREED_MODIFIER, AGE_WEIGHT_MODIFIER,
                            chest_cm, body_length_cm, breed, age_category)

(***************************************************************************)
(* determine_size.  max(set(sizes), key=sizes.count) returns the first     *)
(* element with the highest count in the iteration order of the set; for   *)
(* strings that order follows their hashes, which are salted per process   *)
(* (PYTHONHASHSEED).  order is the iteration order of this process.        *)
(***************************************************************************)
SizeLabels == <<"XS", "S", "M", "L", "XL">>

\* the iteration orders a process can have: each pair of labels occurs in
\* both relative orders
HashOrders == {SizeLabels, <<"XL", "L", "M", "S", "XS">>}

\* list.count
Count(seq, x) == Cardinality({i \in DOMAIN seq : seq[i] = x})

\* (variant: max without the key, taken as the first element)
MaxByCount_nokey(iter, seq) == iter[1]

\* max(elems, key=..) over the elements in iteration order: the first maximum
MaxByCount(iter, seq) ==
    LET best == CHOOSE i \in DOMAIN iter :
                    /\ \A j \in DOMAIN iter : Count(seq, iter[j]) <= Count(seq, iter[i])
                    /\ \A j \in 1..(i - 1) : Count(seq, iter[j]) < Count(seq, iter[i])
    IN  iter[best]

\* iteration over set(seq) in the order of this process
SetIter(seq, order) == SelectSeq(order, LAMBDA x : Count(seq, x) > 0)

\* (variant: the bounds written <=)
weight_size_le(weight) ==
    IF weight <= 250 THEN "XS"
    ELSE IF weight <= 400 THEN "S"
    ELSE IF weight <= 600 THEN "M"
    ELSE IF weight <= 850 THEN "L"
    ELSE "XL"

weight_size(weight) ==
    IF weight < 250 THEN "XS"
    ELSE IF weight < 400 THEN "S"
    ELSE IF weight < 600 THEN "M"
    ELSE IF weight < 850 THEN "L"
    ELSE "XL"

chest_size(chest_cm) ==
    IF chest_cm < 240 THEN "XS"
    ELSE IF chest_cm < 320 THEN "S"
    ELSE IF chest_cm < 380 THEN "M"
    ELSE IF chest_cm < 450 THEN "L"
    ELSE "XL"

neck_size(neck_cm) ==
    IF neck_cm < 150 THEN "XS"
    ELSE IF neck_cm < 200 THEN "S"
    ELSE IF neck_cm < 240 THEN "M"
    ELSE IF neck_cm < 280 THEN "L"
    ELSE "XL"

size_ranges ==
    [XS |-> [weight |-> "< 2.5 kg", chest |-> "< 24 cm", neck |-> "< 15 cm"],
     S  |-> [weight |-> "2.5-4 kg", chest |-> "24-32 cm", neck |-> "15-20 cm"],
     M  |-> [weight |-> "4-6 kg", chest |-> "32-38 cm", neck |-> "20-24 cm"],
     L  |-> [weight |-> "6-8.5 kg", chest |-> "38-45 cm", neck |-> "24-28 cm"],
     XL |-> [weight |-> "> 8.5 kg", chest |-> "> 45 cm", neck |-> "> 28 cm"]]

\* (variant: the weight class is counted twice and the chest class once)
size_votes_weight_twice(weight, chest_cm, neck_cm) ==
    <<weight_size(weight), weight_size(weight),
      chest_size(chest_cm), neck_size(neck_cm)>>

\* sizes = [weight_size, chest_size, chest_size, neck_size]
size_votes(weight, chest_cm, neck_cm) ==
    <<weight_size(weight), chest_size(chest_cm),
      chest_size(chest_cm), neck_size(neck_cm)>>

determine_size(weight, chest_cm, neck_cm, order) ==
    LET sizes == size_votes(weight, chest_cm, neck_cm)
        size_category == MaxByCount(SetIter(sizes, order), sizes)
    IN  [size_category |-> size_category,
         size_ranges |-> size_ranges[size_category],
         recommendation |-> <<"recommended size for clothes and collar", size_category>>]

(***************************************************************************)
(* process_cat_color.  A string is a sequence of one-character strings; an *)
(* Optional[str] is [present |-> FALSE] for None and                       *)
(* [present |-> TRUE, chars |-> ..] for a string.                          *)
(***************************************************************************)
None == [present |-> FALSE, chars |-> <<>>]
Str(chars) == [present |-> TRUE, chars |-> chars]

UpperCase == <<"A", "B", "C", "D", "E", "F", "G", "H", "I", "J", "K", "L", "M",
               "N", "O", "P", "Q", "R", "S", "T", "U", "V", "W", "X", "Y", "Z">>
LowerCase == <<"a", "b", "c", "d", "e", "f", "g", "h", "i", "j", "k", "l", "m",
               "n", "o", "p", "q", "r", "s", "t", "u", "v", "w", "x", "y", "z">>
Whitespace == {" "}
\* upper-case letters (Unicode category Lu) without a lowercase mapping, such
\* as MATHEMATICAL BOLD CAPITAL A: str.lower leaves them as they are
UncasedCapitals == {"U+1D400"}

\* str.lower, one character
LowerChar(c) ==
    IF \E i \in DOMAIN UpperCase : UpperCase[i] = c
    THEN LowerCase[CHOOSE i \in DOMAIN UpperCase : UpperCase[i] = c]
    ELSE c

\* str.lower
Lower(s) == [i \in DOMAIN s |-> LowerChar(s[i])]

\* str.replace(old, new) for single characters
Replace(s, old, new) == [i \in DOMAIN s |-> IF s[i] = old THEN new ELSE s[i]]

\* str.strip
RECURSIVE Strip(_)
Strip(s) ==
    IF s = <<>> THEN s
    ELSE IF Head(s) \in Whitespace THEN Strip(Tail(s))
    ELSE IF s[Len(s)] \in Whitespace THEN Strip(SubSeq(s, 1, Len(s) - 1))
    ELSE s

\* str.split(sep): the list of the segments between the separators
RECURSIVE Split(_, _)
Split(s, sep) ==
    IF \A i \in DOMAIN s : s[i] # sep THEN <<s>>
    ELSE LET i == CHOOSE k \in DOMAIN s :
                      s[k] = sep /\ \A j \in 1..(k - 1) : s[j] # sep
         IN  <<SubSeq(s, 1, i - 1)>> \o Split(SubSeq(s, i + 1, Len(s)), sep)

\* sep.join(list)
RECURSIVE Join(_, _)
Join(list, sep) ==
    IF list = <<>> THEN <<>>
    ELSE IF Len(list) = 1 THEN list[1]
    ELSE list[1] \o <<sep>> \o Join(Tail(list), sep)

Unknown == <<"u", "n", "k", "n", "o", "w", "n">>

\* (variant: the empty segments are not dropped)
process_cat_color_keep_empty(cat_color) ==
    IF ~cat_color.present \/ cat_color.chars = <<>> THEN Unknown
    ELSE LET parts == Split(Replace(cat_color.chars, ",", "_"), "_")
             colors == [i \in DOMAIN parts |-> Lower(Strip(parts[i]))]
         IN  IF colors = <<>> THEN Unknown ELSE Join(colors, "_")

process_cat_color(cat_color) ==
    IF ~cat_color.present \/ cat_color.chars = <<>> THEN Unknown
    ELSE LET parts == Split(Replace(cat_color.chars, ",", "_"), "_")
             cleaned == [i \in DOMAIN parts |-> Lower(Strip(parts[i]))]
             colors == SelectSeq(cleaned, LAMBDA c : c # <<>>)
         IN  IF colors = <<>> THEN Unknown ELSE Join(colors, "_")

(***************************************************************************)
(* CatDetector.detect_cat.  image is what reading the file gives; boxes is *)
(* what the YOLO model returns for it: a sequence of                       *)
(* [cls, conf, xyxy] with the confidence in units of 0.00001 and the       *)
(* corner coordinates in half pixels.  The returned confidence is in units *)
(* of 0.0001.                                                              *)
(***************************************************************************)
cat_class_id == 15

DetectFailure(error) ==
    [is_cat |-> FALSE, confidence |-> 0, bounding_box |-> <<>>,
     total_cats_detected |-> 0, error |-> error]

\* int(x) of a non-negative coordinate in half pixels
IntOfHalf(x) == x \div 2

\* the cats list built from the model's boxes
ExtractCats(boxes) ==
    LET catBoxes == SelectSeq(boxes, LAMBDA b : b.cls = cat_class_id)
    IN  [i \in DOMAIN catBoxes |->
            [confidence |-> catBoxes[i].conf,
             bbox |-> <<IntOfHalf(catBoxes[i].xyxy[1]), IntOfHalf(catBoxes[i].xyxy[2]),
                        IntOfHalf(catBoxes[i].xyxy[3]), IntOfHalf(catBoxes[i].xyxy[4])>>,
             area |-> ((catBoxes[i].xyxy[3] - catBoxes[i].xyxy[1])
                        * (catBoxes[i].xyxy[4] - catBoxes[i].xyxy[2])) \div 4]]

\* (variant: the first cat of the list)
BestCat_first(cats) == cats[1]

\* max(cats, key=confidence): the first cat with the highest confidence
BestCat(cats) ==
    cats[CHOOSE i \in DOMAIN cats :
            /\ \A j \in DOMAIN cats : cats[j].confidence <= cats[i].confidence
            /\ \A j \in 1..(i - 1) : cats[j].confidence < cats[i].confidence]

detect_cat(image, boxes) ==
    IF image = "missing" THEN DetectFailure("file not found")
    ELSE IF image = "unreadable" THEN DetectFailure("cannot load image")
    ELSE IF image = "low_quality" THEN DetectFailure("image quality")
    ELSE IF image = "model_error" THEN DetectFailure("detection error")
    ELSE LET cats == ExtractCats(boxes)
         IN  IF cats = <<>> THEN DetectFailure("no cat in image")
             ELSE [is_cat |-> TRUE,
                   confidence |-> RoundDiv(BestCat(cats).confidence, 10),
                   bounding_box |-> BestCat(cats).bbox,
                   total_cats_detected |-> Len(cats),
                   error |-> "None"]

(***************************************************************************)
(* Inputs                                                                  *)
(***************************************************************************)
Pixels == (1..MaxPix) \cup {100 * k : k \in 1..MaxPix}

\* x2 - x1 and y2 - y1 of a box: a pixel size, or degenerate
Deltas == Pixels \cup {0 - 1, 0}

BBoxes ==
    {<<100, 150, 100 + dw, 150 + dh>> : dw \in Deltas, dh \in Deltas}

ValidBox(bbox) == bbox[3] > bbox[1] /\ bbox[4] > bbox[2]

Breeds == {"unknown", "maine_coon", "siamese", "tabby"}
Ages == {"kitten", "young", "adult", "senior", "elder"}
Colors == {None,
           Str(<<"O", "r", "a", "n", "g", "e", ",", " ", "W", "h", "i", "t", "e">>),
           Str(<<"_", " ", ",">>)}
Uids == {"uid_1", "uid_2"}
ImagePaths == {"/tmp/cat_images/cat_1.jpg"}

Images == {"missing", "unreadable", "low_quality", "model_error", "ok"}
HalfBoxes ==
    {<<x1, y1, x2, y2>> : x1 \in 0..MaxHalf, y1 \in 0..MaxHalf,
                          x2 \in 0..MaxHalf, y2 \in 0..MaxHalf}
\* the boxes the model can report: cats with x1 < x2 and y1 < y2, and an
\* object of another class
YoloBoxes ==
    {[cls |-> cat_class_id, conf |-> p, xyxy |-> b] :
        p \in {50000, 53125}, b \in {hb \in HalfBoxes : hb[1] < hb[3] /\ hb[2] < hb[4]}}
    \cup {[cls |-> cat_class_id + 1, conf |-> 90000, xyxy |-> <<0, 0, MaxHalf, MaxHalf>>]}
YoloResults == UNION {[1..n -> YoloBoxes] : n \in 0..MaxCats}

\* the colors of a direct process_cat_color call: None and every string of at
\* most MaxColorLen characters over letters, a blank and the separators
ColorChars == {"A", "b", " ", ",", "_"} \cup UncasedCapitals
UnitColors ==
    {None} \cup {Str(chars) : chars \in UNION {[1..n -> ColorChars] : n \in 0..MaxColorLen}}

(***************************************************************************)
(* State                                                                   *)
(***************************************************************************)
VARIABLES
    pc,               \* position of the current analyze_cat call / request
    caller,           \* "direct" or "vision": who called analyze_cat
    args,             \* the arguments of the current analyze_cat call
    processed_color,  \* locals of analyze_cat
    metrics,
    weight,
    body_condition,
    size_info,
    result,           \* the dict analyze_cat returned
    error,            \* the exception analyze_cat raised, or "None"
    prev,             \* the result of the previous call with these arguments
    calls,            \* number of calls made with these arguments
    hashseed,         \* iteration order of string sets in this process
    detect_result,    \* what detect_cat returned to the vision endpoint
    call,             \* a direct call of one stage function: name, arguments, return
    threads,          \* per thread: position in analyze_cat, arguments, outcome
    frames,           \* the locals of the activations of analyze_cat
    modtables,        \* the module-level dicts BREED_MODIFIER, AGE_WEIGHT_MODIFIER
    heap,             \* the list objects passed as bounding_box
    reqs,             \* per request of the vision endpoint: position and locals
    files,            \* the files that exist in /tmp/cat_images
    cat_table,        \* the rows of table cat, in insertion order
    breqs,            \* per basket request: position, body, outcome
    user_baskets,     \* the rows of table user_baskets
    basket_unique,    \* whether the table has a unique constraint on the pair
    _pool,            \* the module-level _pool of database.py: 0 for None, or a pool
    pools,            \* the connection pools created so far
    coros,            \* per coroutine: position in get_db_pool / create_db_pool
    _detector_instance, \* the module-level singleton of detect_cat.py: 0 for None
    detector_log,     \* calls made, constructions, and the outcome of the last call
    requests,         \* RateLimiter.requests: key -> list of timestamps
    now,              \* what datetime.utcnow() returns, in seconds
    limiter_log       \* calls of is_allowed: limits, allowed calls, last call

epvars == <<reqs, files, cat_table>>
basketvars == <<breqs, user_baskets, basket_unique>>
poolvars == <<_pool, pools, coros>>
detvars == <<_detector_instance, detector_log>>
limvars == <<requests, now, limiter_log>>
svcvars == <<epvars, basketvars, poolvars, detvars, limvars>>

vars == <<pc, caller, args, processed_color, metrics, weight, body_condition,
          size_info, result, error, prev, calls, hashseed, detect_result, call,
          threads, frames, modtables, heap, svcvars>>

concvars == <<threads, frames, modtables, heap>>

locals == <<processed_color, metrics, weight, body_condition, size_info>>

NoArgs == [image_path |-> "", bounding_box |-> <<>>, firebase_uid |-> "",
           cat_color |-> None, breed |-> "", age_category |-> ""]
NoMetrics == [posture |-> "none"]
NoCondition == [condition |-> "none"]
NoSize == [size_category |-> "none"]
NoResult == [analysis_method |-> "none"]
NoDetect == [is_cat |-> FALSE, error |-> "not run"]
NoCall == [fn |-> "none"]
NoFrame == [processed_color |-> <<>>, metrics |-> NoMetrics, weight |-> 0,
            body_condition |-> NoCondition, size_info |-> NoSize]
IdleThread == [pc |-> "idle", args |-> NoArgs, passed |-> <<>>, overlapped |-> FALSE,
               result |-> NoResult, error |-> "None"]

Threads == 1..MaxThreads

NoPending == [kind |-> "none"]
IdleRequest == [pc |-> "idle", firebase_uid |-> "", written |-> FALSE,
                detect_result |-> NoDetect, analysis_result |-> NoResult,
                pending |-> NoPending, status |-> 0]
Requests == 1..MaxRequests

\* calls: get_detector and reset_detector calls made; attempts: CatDetector()
\* calls; constructed: instances constructed; since_reset: the instances
\* constructed since the last reset; last: the last call and its outcome
NoDetectorCalls == [calls |-> 0, attempts |-> 0, constructed |-> 0,
                    since_reset |-> {}, last |-> [fn |-> "none"]]

\* calls: number of is_allowed calls; limits: the max_requests and
\* window_seconds of all the calls; allowed: per key the times of the calls
\* that were allowed; last: the last call and what it returned
LimiterKeys == {"k1", "k2"}
NoLimiterCalls == [calls |-> 0, limits |-> [max_requests |-> 0, window_seconds |-> 0],
                   allowed |-> [k \in LimiterKeys |-> <<>>], last |-> [key |-> "none"]]

IdleCoroutine == [pc |-> "idle", entry |-> "none", i |-> 0, stored |-> FALSE,
                  returned |-> 0]
Coroutines == 1..MaxCoroutines

IdleBasketRequest == [pc |-> "idle", op |-> "none", status |-> 0]
BasketRequests == 1..MaxBasketRequests
\* the table before the requests: one row, of user 2
InitialBasket ==
    <<[id |-> 100, user_id |-> 2, clothing_uuid |-> "uuid_a", quantity |-> 5]>>

Init ==
    /\ pc = "idle"
    /\ caller = "none"
    /\ args = NoArgs
    /\ processed_color = <<>>
    /\ metrics = NoMetrics
    /\ weight = 0
    /\ body_condition = NoCondition
    /\ size_info = NoSize
    /\ result = NoResult
    /\ error = "None"
    /\ prev = NoResult
    /\ calls = 0
    /\ hashseed \in HashOrders
    /\ detect_result = NoDetect
    /\ call = NoCall
    /\ threads = [t \in Threads |-> IdleThread]
    /\ frames = [t \in Threads |-> NoFrame]
    /\ modtables = [BREED_MODIFIER |-> BREED_MODIFIER,
                    AGE_WEIGHT_MODIFIER |-> AGE_WEIGHT_MODIFIER]
    /\ heap = [t \in Threads |-> <<>>]
    /\ reqs = [r \in Requests |-> IdleRequest]
    /\ files = {}
    /\ cat_table = <<>>
    /\ breqs = [r \in BasketRequests |-> IdleBasketRequest]
    /\ user_baskets = InitialBasket
    /\ basket_unique = "unknown"
    /\ _pool = 0
    /\ pools = <<>>
    /\ coros = [c \in Coroutines |-> IdleCoroutine]
    /\ _detector_instance = 0
    /\ detector_log = NoDetectorCalls
    /\ requests = <<>>
    /\ now = 0
    /\ limiter_log = NoLimiterCalls

(***************************************************************************)
(* analyze_cat, one action per stage                                       *)
(***************************************************************************)
\* a caller invokes analyze_cat(image_path, bounding_box, firebase_uid,
\*                               cat_color, breed, age_category) directly
AnalyzeCat ==
    /\ pc = "idle"
    /\ \E image_path \in ImagePaths, bounding_box \in BBoxes, firebase_uid \in Uids,
          cat_color \in Colors, breed \in Breeds, age_category \in Ages :
          /\ bounding_box[3] - bounding_box[1]
                <= MaxAspect * Max(bounding_box[4] - bounding_box[2], 1)
          /\ args' = [image_path |-> image_path, bounding_box |-> bounding_box,
                      firebase_uid |-> firebase_uid, cat_color |-> cat_color,
                      breed |-> breed, age_category |-> age_category]
    /\ pc' = "process_cat_color"
    /\ caller' = "direct"
    /\ calls' = 1
    /\ UNCHANGED <<locals, result, error, prev, hashseed, detect_result, call,
                   concvars, svcvars>>

\* 1. processed_color = process_cat_color(cat_color)
ProcessColor ==
    /\ pc = "process_cat_color"
    /\ processed_color' = process_cat_color(args.cat_color)
    /\ pc' = "estimate_body_metrics"
    /\ UNCHANGED <<caller, args, metrics, weight, body_condition, size_info,
                   result, error, prev, calls, hashseed, detect_result, call,
                   concvars, svcvars>>

\* 2. metrics = estimate_body_metrics(bounding_box); an exception of the
\*    stage leaves analyze_cat
EstimateBodyMetrics ==
    /\ pc = "estimate_body_metrics"
    /\ LET m == estimate_body_metrics(args.bounding_box)
       IN  IF "exception" \in DOMAIN m
           THEN /\ error' = m.exception
                /\ pc' = "raised"
                /\ UNCHANGED metrics
           ELSE /\ metrics' = m
                /\ pc' = "estimate_weight"
                /\ UNCHANGED error
    /\ UNCHANGED <<caller, args, processed_color, weight, body_condition, size_info,
                   result, prev, calls, hashseed, detect_result, call,
                   concvars, svcvars>>

\* 3. weight = estimate_weight(chest_cm, body_length_cm, breed, age_category)
EstimateWeight ==
    /\ pc = "estimate_weight"
    /\ weight' = estimate_weight(metrics.chest_cm, metrics.body_length_cm,
                                 args.breed, args.age_category)
    /\ pc' = "estimate_body_condition"
    /\ UNCHANGED <<caller, args, processed_color, metrics, body_condition, size_info,
                   result, error, prev, calls, hashseed, detect_result, call,
                   concvars, svcvars>>

\* 4. body_condition = estimate_body_condition(chest_cm, weight, body_length_cm);
\*    an exception of the stage leaves analyze_cat
EstimateBodyCondition ==
    /\ pc = "estimate_body_condition"
    /\ LET bc == estimate_body_condition(metrics.chest_cm, weight, metrics.body_length_cm)
       IN  IF "exception" \in DOMAIN bc
           THEN /\ error' = bc.exception
                /\ pc' = "raised"
                /\ UNCHANGED body_condition
           ELSE /\ body_condition' = bc
                /\ pc' = "determine_size"
                /\ UNCHANGED error
    /\ UNCHANGED <<caller, args, processed_color, metrics, weight, size_info,
                   result, prev, calls, hashseed, detect_result, call,
                   concvars, svcvars>>

\* 5. size_info = determine_size(weight, chest_cm, neck_cm)
DetermineSize ==
    /\ pc = "determine_size"
    /\ size_info' = determine_size(weight, metrics.chest_cm, metrics.neck_cm, hashseed)
    /\ pc' = "return"
    /\ UNCHANGED <<caller, args, processed_color, metrics, weight, body_condition,
                   result, error, prev, calls, hashseed, detect_result, call,
                   concvars, svcvars>>

\* (variant: a breed that is not in BREED_MODIFIER is returned as "unknown")
analysis_result_known_breed(a, color, m, w, bc, si) ==
    [firebase_uid |-> a.firebase_uid,
     breed |-> IF a.breed \in DOMAIN BREED_MODIFIER THEN a.breed ELSE "unknown",
     cat_color |-> color,
     age_category |-> a.age_category,
     weight_kg |-> w,
     body_condition_score |-> bc.bcs_score,
     body_condition |-> bc.condition,
     body_condition_description |-> bc.description,
     bmi |-> bc.bmi,
     measurements |-> [chest_cm |-> m.chest_cm,
                       neck_cm |-> m.neck_cm,
                       waist_cm |-> m.waist_cm,
                       body_length_cm |-> m.body_length_cm,
                       back_length_cm |-> m.back_length_cm,
                       leg_length_cm |-> m.leg_length_cm],
     size_category |-> si.size_category,
     size_ranges |-> si.size_ranges,
     size_recommendation |-> si.recommendation,
     posture |-> m.posture,
     confidence |-> m.confidence,
     quality_flag |-> m.quality_flag,
     bounding_box |-> a.bounding_box,
     analysis_method |-> "cv_heuristic_v5_professional",
     analysis_version |-> "5.0",
     image_path |-> a.image_path]

\* 6. the returned dict, from the arguments a and the locals
analysis_result(a, color, m, w, bc, si) ==
    [firebase_uid |-> a.firebase_uid,
     breed |-> a.breed,
     cat_color |-> color,
     age_category |-> a.age_category,
     weight_kg |-> w,
     body_condition_score |-> bc.bcs_score,
     body_condition |-> bc.condition,
     body_condition_description |-> bc.description,
     bmi |-> bc.bmi,
     measurements |-> [chest_cm |-> m.chest_cm,
                       neck_cm |-> m.neck_cm,
                       waist_cm |-> m.waist_cm,
                       body_length_cm |-> m.body_length_cm,
                       back_length_cm |-> m.back_length_cm,
                       leg_length_cm |-> m.leg_length_cm],
     size_category |-> si.size_category,
     size_ranges |-> si.size_ranges,
     size_recommendation |-> si.recommendation,
     posture |-> m.posture,
     confidence |-> m.confidence,
     quality_flag |-> m.quality_flag,
     bounding_box |-> a.bounding_box,
     analysis_method |-> "cv_heuristic_v5_professional",
     analysis_version |-> "5.0",
     image_path |-> a.image_path]

AnalysisResult ==
    analysis_result(args, processed_color, metrics, weight, body_condition, size_info)

Return ==
    /\ pc = "return"
    /\ result' = AnalysisResult
    /\ pc' = "done"
    /\ UNCHANGED <<caller, args, locals, error, prev, calls, hashseed,
                   detect_result, call, concvars, svcvars>>

\* a new activation of analyze_cat starts with its locals unset
FreshLocals ==
    /\ processed_color' = <<>>
    /\ metrics' = NoMetrics
    /\ weight' = 0
    /\ body_condition' = NoCondition
    /\ size_info' = NoSize

\* the same process calls analyze_cat again with the same arguments
CallAgain ==
    /\ pc = "done"
    /\ caller = "direct"
    /\ calls < MaxCalls
    /\ prev' = result
    /\ calls' = calls + 1
    /\ pc' = "process_cat_color"
    /\ FreshLocals
    /\ UNCHANGED <<caller, args, result, error, hashseed, detect_result, call,
                   concvars, svcvars>>

\* the program is run again (a new process, with its own string hash salt)
\* and calls analyze_cat with the same arguments
RestartAndCall ==
    /\ pc = "done"
    /\ caller = "direct"
    /\ calls < MaxCalls
    /\ hashseed' \in HashOrders
    /\ prev' = result
    /\ calls' = calls + 1
    /\ pc' = "process_cat_color"
    /\ FreshLocals
    /\ UNCHANGED <<caller, args, result, error, detect_result, call, concvars, svcvars>>

(***************************************************************************)
(* analyze_cat_endpoint (vision.py), up to the call of analyze_cat         *)
(***************************************************************************)
\* STEP 2: detect_result = detect_cat(temp_path)
VisionDetect ==
    /\ pc = "idle"
    /\ \E image \in Images :
          IF image = "ok"
          THEN \E boxes \in YoloResults : detect_result' = detect_cat(image, boxes)
          ELSE detect_result' = detect_cat(image, <<>>)
    /\ caller' = "vision"
    /\ pc' = "detected"
    /\ UNCHANGED <<args, locals, result, error, prev, calls, hashseed, call,
                   concvars, svcvars>>

\* if not detect_result.get("is_cat"): return the no-cat response
VisionNoCat ==
    /\ pc = "detected"
    /\ ~detect_result.is_cat
    /\ pc' = "no_cat"
    /\ UNCHANGED <<caller, args, locals, result, error, prev, calls, hashseed,
                   detect_result, call, concvars, svcvars>>

\* STEP 3: analyze_cat(temp_path, detect_result["bounding_box"], firebase_uid,
\*                     cat_color=None, breed="unknown", age_category="adult")
VisionAnalyze ==
    /\ pc = "detected"
    /\ detect_result.is_cat
    /\ \E image_path \in ImagePaths, firebase_uid \in Uids :
          args' = [image_path |-> image_path,
                   bounding_box |-> detect_result.bounding_box,
                   firebase_uid |-> firebase_uid, cat_color |-> None,
                   breed |-> "unknown", age_category |-> "adult"]
    /\ calls' = 1
    /\ pc' = "process_cat_color"
    /\ UNCHANGED <<caller, locals, result, error, prev, hashseed, detect_result, call,
                   concvars, svcvars>>

Next ==
    \/ AnalyzeCat
    \/ ProcessColor
    \/ EstimateBodyMetrics
    \/ EstimateWeight
    \/ EstimateBodyCondition
    \/ DetermineSize
    \/ Return
    \/ CallAgain
    \/ RestartAndCall
    \/ VisionDetect
    \/ VisionNoCat
    \/ VisionAnalyze

Spec == Init /\ [][Next]_vars

(***************************************************************************)
(* Direct calls of the stage functions, with arguments around the bounds   *)
(* of their tables.  The functions are pure, so a behaviour makes one call *)
(* and records its name, arguments and return value in call.               *)
(***************************************************************************)
\* the values within Slack of a bound
Slack == 1
Near(bounds) == {bounds[i] + d : i \in DOMAIN bounds, d \in (0 - Slack)..Slack}

WeightBounds == <<250, 400, 600, 850>>
ChestBounds == <<240, 320, 380, 450>>
NeckBounds == <<150, 200, 240, 280>>

\* weights 0.00 .. MaxUnitWeight/100 kg and lengths 0, 5, 10 and 20 cm give
\* every tier of the bmi table and each of its bounds exactly; with the
\* length 9.4 cm a bmi lies within half a hundredth below a bound
MaxUnitWeight == 100
UnitLengths == {0, 50, 94, 100, 200}
UnitChests == {300, 500}

UnitPosture ==
    /\ call = NoCall
    /\ \E w \in Pixels, h \in Pixels :
        call' = [fn |-> "estimate_posture", args |-> <<w, h>>,
                 ret |-> estimate_posture(w, h)]
    /\ UNCHANGED <<pc, caller, args, locals, result, error, prev, calls,
                   hashseed, detect_result, concvars, svcvars>>

\* a direct call of CatDetector.detect_cat: image is what reading the file
\* gives, boxes what the model reports for it
UnitDetectCat ==
    /\ call = NoCall
    /\ \E image \in Images :
          \E boxes \in (IF image = "ok" THEN YoloResults ELSE {<<>>}) :
              call' = [fn |-> "detect_cat", args |-> <<image, boxes>>,
                       ret |-> detect_cat(image, boxes)]
    /\ UNCHANGED <<pc, caller, args, locals, result, error, prev, calls,
                   hashseed, detect_result, concvars, svcvars>>

\* boxes whose confidence lies between a threshold of quality_flag and the
\* next hundredth above it (0.8533 for 240 by 280, 0.6033 for 148 by 150)
ThresholdBoxes == {<<0, 0, 240, 280>>, <<0, 0, 148, 150>>}
UnitBoxes == BBoxes \cup ThresholdBoxes

UnitBodyMetrics ==
    /\ call = NoCall
    /\ \E bbox \in UnitBoxes :
        call' = [fn |-> "estimate_body_metrics", args |-> <<bbox>>,
                 ret |-> estimate_body_metrics(bbox)]
    /\ UNCHANGED <<pc, caller, args, locals, result, error, prev, calls,
                   hashseed, detect_result, concvars, svcvars>>

UnitColor ==
    /\ call = NoCall
    /\ \E cat_color \in UnitColors :
        call' = [fn |-> "process_cat_color", args |-> <<cat_color>>,
                 ret |-> process_cat_color(cat_color)]
    /\ UNCHANGED <<pc, caller, args, locals, result, error, prev, calls,
                   hashseed, detect_result, concvars, svcvars>>

\* chests and body lengths of whole centimetres, in tenths
UnitWeightChests == {100, 200, 330, 500}
UnitWeightLengths == {100, 200, 350, 500}

UnitWeight ==
    /\ call = NoCall
    /\ \E chest_cm \in UnitWeightChests, body_length_cm \in UnitWeightLengths,
          breed \in Breeds, age_category \in Ages :
        call' = [fn |-> "estimate_weight",
                 args |-> <<chest_cm, body_length_cm, breed, age_category>>,
                 ret |-> estimate_weight(chest_cm, body_length_cm, breed, age_category)]
    /\ UNCHANGED <<pc, caller, args, locals, result, error, prev, calls,
                   hashseed, detect_result, concvars, svcvars>>

UnitBodyCondition ==
    /\ call = NoCall
    /\ \E chest_cm \in UnitChests, w \in 0..MaxUnitWeight, body_length_cm \in UnitLengths :
        call' = [fn |-> "estimate_body_condition",
                 args |-> <<chest_cm, w, body_length_cm>>,
                 ret |-> estimate_body_condition(chest_cm, w, body_length_cm)]
    /\ UNCHANGED <<pc, caller, args, locals, result, error, prev, calls,
                   hashseed, detect_result, concvars, svcvars>>

UnitDetermineSize ==
    /\ call = NoCall
    /\ \E w \in Near(WeightBounds), chest_cm \in Near(ChestBounds),
       neck_cm \in Near(NeckBounds) :
        call' = [fn |-> "determine_size", args |-> <<w, chest_cm, neck_cm>>,
                 sizes |-> size_votes(w, chest_cm, neck_cm),
                 ret |-> determine_size(w, chest_cm, neck_cm, hashseed)]
    /\ UNCHANGED <<pc, caller, args, locals, result, error, prev, calls,
                   hashseed, detect_result, concvars, svcvars>>

NextUnit ==
    \/ UnitPosture
    \/ UnitBodyMetrics
    \/ UnitColor
    \/ UnitWeight
    \/ UnitBodyCondition
    \/ UnitDetermineSize
    \/ UnitDetectCat

SpecUnit == Init /\ [][NextUnit]_vars

(***************************************************************************)
(* Concurrent calls of analyze_cat from several threads of one process.    *)
(* The stage functions are pure, so a thread takes one step per stage.     *)
(* Each activation has its own locals (frames); the module-level dicts     *)
(* (modtables) and the list objects passed as bounding_box (heap) are      *)
(* shared: a caller may pass a new list or a list another call was given.  *)
(***************************************************************************)
\* analyze_cat run alone, from the computed weight on
alone_from_weight(a, color, m, w, order) ==
    LET bc == estimate_body_condition(m.chest_cm, w, m.body_length_cm)
    IN  IF "exception" \in DOMAIN bc THEN [exception |-> bc.exception]
        ELSE analysis_result(a, color, m, w, bc,
                             determine_size(w, m.chest_cm, m.neck_cm, order))

\* analyze_cat run alone: its return value, or the exception it raises (each
\* stage is evaluated before its value is handed to the next one)
analyze_cat_alone(a, bbox, order) ==
    LET color == process_cat_color(a.cat_color)
    IN  CHOOSE r \in
            {IF "exception" \in DOMAIN m THEN [exception |-> m.exception]
             ELSE CHOOSE r2 \in
                     {alone_from_weight(a, color, m, w, order) :
                         w \in {estimate_weight(m.chest_cm, m.body_length_cm,
                                                a.breed, a.age_category)}} : TRUE
             : m \in {estimate_body_metrics(bbox)}} : TRUE

\* (variant: the locals are kept in one place for all activations)
Frame_shared(t) == 1

\* the frame that holds the locals of the activation of thread t
Frame(t) == t

\* boxes and breeds of concurrent calls: the 300 by 300 box with two breeds,
\* and a 1 by 800 box (for which analyze_cat raises)
ConcCalls == {<<(<<100, 150, 400, 450>>), "unknown">>,
              <<(<<100, 150, 400, 450>>), "siamese">>,
              <<(<<0, 0, 1, 800>>), "unknown">>}
ConcUids == {"uid_1"}

\* the positions inside analyze_cat
Inside == {"process_cat_color", "estimate_body_metrics", "estimate_weight",
           "estimate_body_condition", "determine_size", "return"}

seqvars == <<pc, caller, args, locals, result, error, prev, calls, hashseed,
             detect_result, call>>

\* thread t calls analyze_cat with a new list (kept at heap[t]) or with the
\* list that another call is using
ConcCall(t) ==
    /\ threads[t].pc = "idle"
    /\ \E image_path \in ImagePaths, firebase_uid \in ConcUids,
          ref \in Threads, bb \in ConcCalls :
        LET box == bb[1]
            breed == bb[2]
        IN
          /\ ref # t => box = heap[ref]
          /\ heap' = IF ref # t THEN heap ELSE [heap EXCEPT ![t] = box]
          /\ threads' = [threads EXCEPT ![t] =
                 [pc |-> "process_cat_color",
                  args |-> [image_path |-> image_path, bounding_box |-> ref,
                            firebase_uid |-> firebase_uid, cat_color |-> None,
                            breed |-> breed, age_category |-> "adult"],
                  passed |-> box,
                  overlapped |-> \E u \in Threads : threads[u].pc \in Inside,
                  result |-> NoResult, error |-> "None"]]
    /\ UNCHANGED <<frames, modtables, seqvars, svcvars>>

ConcProcessColor(t) ==
    /\ threads[t].pc = "process_cat_color"
    /\ frames' = [frames EXCEPT ![Frame(t)].processed_color =
                      process_cat_color(threads[t].args.cat_color)]
    /\ threads' = [threads EXCEPT ![t].pc = "estimate_body_metrics"]
    /\ UNCHANGED <<modtables, heap, seqvars, svcvars>>

ConcBodyMetrics(t) ==
    /\ threads[t].pc = "estimate_body_metrics"
    /\ LET m == estimate_body_metrics(heap[threads[t].args.bounding_box])
       IN  IF "exception" \in DOMAIN m
           THEN /\ threads' = [threads EXCEPT ![t].pc = "raised",
                                              ![t].error = m.exception]
                /\ UNCHANGED frames
           ELSE /\ frames' = [frames EXCEPT ![Frame(t)].metrics = m]
                /\ threads' = [threads EXCEPT ![t].pc = "estimate_weight"]
    /\ UNCHANGED <<modtables, heap, seqvars, svcvars>>

ConcWeight(t) ==
    /\ threads[t].pc = "estimate_weight"
    /\ frames' = [frames EXCEPT ![Frame(t)].weight =
           estimate_weight_reading(modtables.BREED_MODIFIER,
                                   modtables.AGE_WEIGHT_MODIFIER,
                                   frames[Frame(t)].metrics.chest_cm,
                                   frames[Frame(t)].metrics.body_length_cm,
                                   threads[t].args.breed,
                                   threads[t].args.age_category)]
    /\ threads' = [threads EXCEPT ![t].pc = "estimate_body_condition"]
    /\ UNCHANGED <<modtables, heap, seqvars, svcvars>>

ConcBodyCondition(t) ==
    /\ threads[t].pc = "estimate_body_condition"
    /\ LET f == frames[Frame(t)]
           bc == estimate_body_condition(f.metrics.chest_cm, f.weight,
                                         f.metrics.body_length_cm)
       IN  IF "exception" \in DOMAIN bc
           THEN /\ threads' = [threads EXCEPT ![t].pc = "raised",
                                              ![t].error = bc.exception]
                /\ UNCHANGED frames
           ELSE /\ frames' = [frames EXCEPT ![Frame(t)].body_condition = bc]
                /\ threads' = [threads EXCEPT ![t].pc = "determine_size"]
    /\ UNCHANGED <<modtables, heap, seqvars, svcvars>>

ConcDetermineSize(t) ==
    /\ threads[t].pc = "determine_size"
    /\ LET f == frames[Frame(t)]
       IN  frames' = [frames EXCEPT ![Frame(t)].size_info =
               determine_size(f.weight, f.metrics.chest_cm, f.metrics.neck_cm, hashseed)]
    /\ threads' = [threads EXCEPT ![t].pc = "return"]
    /\ UNCHANGED <<modtables, heap, seqvars, svcvars>>

ConcReturn(t) ==
    /\ threads[t].pc = "return"
    /\ LET f == frames[Frame(t)]
       IN  threads' = [threads EXCEPT
               ![t].pc = "done",
               ![t].result = analysis_result(threads[t].args, f.processed_color,
                                             f.metrics, f.weight, f.body_condition,
                                             f.size_info)]
    /\ UNCHANGED <<frames, modtables, heap, seqvars, svcvars>>

NextConc ==
    \E t \in Threads :
        \/ ConcCall(t)
        \/ ConcProcessColor(t)
        \/ ConcBodyMetrics(t)
        \/ ConcWeight(t)
        \/ ConcBodyCondition(t)
        \/ ConcDetermineSize(t)
        \/ ConcReturn(t)

SpecConc == Init /\ [][NextConc]_vars

(***************************************************************************)
(* analyze_cat_endpoint (POST /vision/analyze-cat).  Requests run in       *)
(* several workers over one /tmp/cat_images directory and one database; a  *)
(* request takes one step per call it makes.  pending is what the inner    *)
(* try block leaves for its finally clause: a return value or an           *)
(* exception.                                                              *)
(***************************************************************************)
\* the INSERT INTO cat statement: target columns, $n placeholders in VALUES,
\* and arguments passed to conn.fetchval after the query
InsertColumns == 26
InsertPlaceholders == 27
InsertArguments == 26

\* the server takes an INSERT whose VALUES list has one expression per target
\* column, and the driver a call with one argument per placeholder
statement_accepted(columns, placeholders, arguments) ==
    columns = placeholders /\ placeholders = arguments

\* temp_path = temp_dir / f"cat_{uuid.uuid4()}.jpg": one name per request
temp_path(r) == <<"/tmp/cat_images", "cat", r>>

\* (variant: the file is removed only when the try block returns)
unlink_temp_on_return(fs, path, pending) ==
    IF pending.kind = "return" THEN fs \ {path} ELSE fs

\* finally: if temp_path.exists(): temp_path.unlink()
unlink_temp(fs, path, pending) == fs \ {path}

EpTokens == {"", "uid_1"}
EpImages == {"unreadable", "low_quality", "model_error", "ok"}
\* what the model reports: nothing, a cat of 300 by 300 pixels, or a cat of
\* 1 by 800 pixels (for which analyze_cat raises)
EpYoloResults ==
    {<<>>,
     <<[cls |-> cat_class_id, conf |-> 53125, xyxy |-> <<200, 300, 800, 900>>]>>,
     <<[cls |-> cat_class_id, conf |-> 53125, xyxy |-> <<0, 0, 2, 1600>>]>>}

notepvars == <<seqvars, concvars, basketvars, poolvars, detvars, limvars>>

\* user.get("firebase_uid"); 401 when the token carries none
EpRequest(r) ==
    /\ reqs[r].pc = "idle"
    /\ \E uid \in EpTokens :
          reqs' = [reqs EXCEPT ![r] =
                     IF uid = ""
                     THEN [@ EXCEPT !.pc = "finished", !.status = 401]
                     ELSE [@ EXCEPT !.pc = "download", !.firebase_uid = uid]]
    /\ UNCHANGED <<files, cat_table, notepvars>>

\* STEP 1: requests.get(image_url) and raise_for_status(); 400 on failure
EpDownload(r) ==
    /\ reqs[r].pc = "download"
    /\ \E ok \in BOOLEAN :
          reqs' = [reqs EXCEPT ![r] =
                     IF ok THEN [@ EXCEPT !.pc = "write"]
                     ELSE [@ EXCEPT !.pc = "finished", !.status = 400]]
    /\ UNCHANGED <<files, cat_table, notepvars>>

\* open(temp_path, "wb") and f.write(response.content), before the inner try:
\* when the write fails the file that open created stays, and the request
\* ends with 500
EpWrite(r) ==
    /\ reqs[r].pc = "write"
    /\ files' = files \cup {temp_path(r)}
    /\ \E ok \in BOOLEAN :
          reqs' = [reqs EXCEPT ![r] =
                     IF ok THEN [@ EXCEPT !.pc = "detect", !.written = TRUE]
                     ELSE [@ EXCEPT !.pc = "finished", !.status = 500]]
    /\ UNCHANGED <<cat_table, notepvars>>

\* STEP 2: detect_cat(str(temp_path)), which raises when the detector cannot
\* be constructed; the no-cat response when is_cat is false
EpDetect(r) ==
    /\ reqs[r].pc = "detect"
    /\ \/ reqs' = [reqs EXCEPT ![r].pc = "finally",
                                ![r].pending = [kind |-> "exception",
                                                exception |-> "RuntimeError"]]
       \/ \E image \in EpImages :
            \E boxes \in (IF image = "ok" THEN EpYoloResults ELSE {<<>>}) :
              LET d == detect_cat(image, boxes)
              IN  reqs' = [reqs EXCEPT ![r] =
                     IF d.is_cat
                     THEN [@ EXCEPT !.pc = "analyze", !.detect_result = d]
                     ELSE [@ EXCEPT !.pc = "finally", !.detect_result = d,
                             !.pending = [kind |-> "return",
                                          value |-> [is_cat |-> FALSE,
                                                     confidence |-> d.confidence]]]]
    /\ UNCHANGED <<files, cat_table, notepvars>>

\* STEP 3: analyze_cat(str(temp_path), bounding_box, firebase_uid,
\*                     cat_color=None, breed="unknown", age_category="adult")
EpAnalyze(r) ==
    /\ reqs[r].pc = "analyze"
    /\ LET bounding_box == reqs[r].detect_result.bounding_box
           a == [image_path |-> temp_path(r), bounding_box |-> bounding_box,
                 firebase_uid |-> reqs[r].firebase_uid, cat_color |-> None,
                 breed |-> "unknown", age_category |-> "adult"]
           res == analyze_cat_alone(a, bounding_box, hashseed)
       IN  reqs' = [reqs EXCEPT ![r] =
              IF "exception" \in DOMAIN res
              THEN [@ EXCEPT !.pc = "finally",
                             !.pending = [kind |-> "exception",
                                          exception |-> res.exception]]
              ELSE [@ EXCEPT !.pc = "insert", !.analysis_result = res]]
    /\ UNCHANGED <<files, cat_table, notepvars>>

\* the response of a request that has inserted row cat_id
response_data(req, cat_id) ==
    [is_cat |-> TRUE,
     confidence |-> req.detect_result.confidence,
     id |-> cat_id,
     cat_color |-> req.analysis_result.cat_color,
     breed |-> req.analysis_result.breed,
     weight |-> req.analysis_result.weight_kg,
     size_category |-> req.analysis_result.size_category,
     chest_cm |-> req.analysis_result.measurements.chest_cm,
     bounding_box |-> req.detect_result.bounding_box]

\* STEP 4 and 5: get_db_pool(), pool.acquire(), conn.fetchval(INSERT ...
\* RETURNING id), then response_data with the id of the new row
EpInsert(r) ==
    /\ reqs[r].pc = "insert"
    /\ \E db_ready \in BOOLEAN :
          IF ~db_ready
          THEN /\ reqs' = [reqs EXCEPT ![r].pc = "finally",
                                       ![r].pending = [kind |-> "exception",
                                                       exception |-> "RuntimeError"]]
               /\ UNCHANGED cat_table
          ELSE IF ~statement_accepted(InsertColumns, InsertPlaceholders, InsertArguments)
          THEN /\ reqs' = [reqs EXCEPT ![r].pc = "finally",
                                       ![r].pending = [kind |-> "exception",
                                                       exception |-> "PostgresError"]]
               /\ UNCHANGED cat_table
          ELSE LET cat_id == Len(cat_table) + 1
               IN  /\ cat_table' = Append(cat_table,
                         [id |-> cat_id, request |-> r,
                          firebase_uid |-> reqs[r].firebase_uid,
                          size_category |-> reqs[r].analysis_result.size_category,
                          bounding_box |-> reqs[r].detect_result.bounding_box])
                   /\ reqs' = [reqs EXCEPT ![r].pc = "finally",
                                  ![r].pending = [kind |-> "return",
                                                  value |-> response_data(reqs[r], cat_id)]]
    /\ UNCHANGED <<files, notepvars>>

\* the finally clause, then the return of the response or, through the outer
\* except Exception, HTTP 500
EpFinally(r) ==
    /\ reqs[r].pc = "finally"
    /\ files' = unlink_temp(files, temp_path(r), reqs[r].pending)
    /\ reqs' = [reqs EXCEPT ![r].pc = "finished",
                            ![r].status = IF reqs[r].pending.kind = "return"
                                          THEN 200 ELSE 500]
    /\ UNCHANGED <<cat_table, notepvars>>

NextEndpoint ==
    \E r \in Requests :
        \/ EpRequest(r)
        \/ EpDownload(r)
        \/ EpWrite(r)
        \/ EpDetect(r)
        \/ EpAnalyze(r)
        \/ EpInsert(r)
        \/ EpFinally(r)

SpecEndpoint == Init /\ [][NextEndpoint]_vars

(***************************************************************************)
(* post_person_baskets and update_basket_quantity.  Each request runs its  *)
(* statements on a pooled connection in autocommit mode, so a statement is *)
(* one step and other requests run between two statements of a request.    *)
(* The table is created outside this repository: whether it has a unique   *)
(* constraint on (user_id, clothing_uuid) is fixed but not known, and is   *)
(* settled when a statement first depends on it.                           *)
(***************************************************************************)
BasketKeys == {<<1, "uuid_a">>, <<1, "uuid_b">>, <<2, "uuid_a">>}
PostQuantities == {1, 2}
PutQuantities == {0 - 1, 0, 3}

\* WHERE user_id = $1 AND clothing_uuid = $2
Matches(row, data) ==
    row.user_id = data.user_id /\ row.clothing_uuid = data.clothing_uuid

Found(rows, data) == \E i \in DOMAIN rows : Matches(rows[i], data)

\* (variant: only a negative quantity removes the row)
update_basket_quantity_lt(rows, data) ==
    [rows |-> IF data.quantity < 0
              THEN SelectSeq(rows, LAMBDA row : ~Matches(row, data))
              ELSE [i \in DOMAIN rows |->
                       IF Matches(rows[i], data)
                       THEN [rows[i] EXCEPT !.quantity = data.quantity]
                       ELSE rows[i]],
     status |-> IF Found(rows, data) THEN 200 ELSE 404]

\* update_basket_quantity: DELETE ... RETURNING id when quantity <= 0, else
\* UPDATE ... SET quantity = $1 ... RETURNING; 404 when nothing is returned
update_basket_quantity(rows, data) ==
    [rows |-> IF data.quantity <= 0
              THEN SelectSeq(rows, LAMBDA row : ~Matches(row, data))
              ELSE [i \in DOMAIN rows |->
                       IF Matches(rows[i], data)
                       THEN [rows[i] EXCEPT !.quantity = data.quantity]
                       ELSE rows[i]],
     status |-> IF Found(rows, data) THEN 200 ELSE 404]

notbasketvars == <<seqvars, concvars, epvars, poolvars, detvars, limvars>>

\* a client sends POST /post/person-baskets
BasketPost(r) ==
    /\ breqs[r].pc = "idle"
    /\ \E key \in BasketKeys, quantity \in PostQuantities :
          breqs' = [breqs EXCEPT ![r] =
                      [pc |-> "select", op |-> "post", status |-> 0,
                       data |-> [user_id |-> key[1], clothing_uuid |-> key[2],
                                 quantity |-> quantity]]]
    /\ UNCHANGED <<user_baskets, basket_unique, notbasketvars>>

\* existing = fetchrow(SELECT id, quantity ... WHERE user_id AND clothing_uuid)
BasketSelect(r) ==
    /\ breqs[r].pc = "select"
    /\ breqs' = [breqs EXCEPT ![r].pc =
                    IF Found(user_baskets, breqs[r].data) THEN "update" ELSE "insert"]
    /\ UNCHANGED <<user_baskets, basket_unique, notbasketvars>>

\* if existing: UPDATE ... SET quantity = quantity + $1 ... RETURNING; when the
\* row is gone by now, dict(None) raises and the request answers 500
BasketUpdate(r) ==
    /\ breqs[r].pc = "update"
    /\ user_baskets' = [i \in DOMAIN user_baskets |->
           IF Matches(user_baskets[i], breqs[r].data)
           THEN [user_baskets[i] EXCEPT !.quantity = @ + breqs[r].data.quantity]
           ELSE user_baskets[i]]
    /\ breqs' = [breqs EXCEPT ![r].pc = "finished",
                              ![r].status = IF Found(user_baskets, breqs[r].data)
                                            THEN 200 ELSE 500]
    /\ UNCHANGED <<basket_unique, notbasketvars>>

\* else: INSERT INTO user_baskets (user_id, clothing_uuid, quantity) ...
\* RETURNING; with a row of the pair present by now, the insert adds a second
\* row or, under a unique constraint, fails (PostgresError, 500).  The id of
\* a row is the number of the request that inserted it.
BasketInsert(r) ==
    /\ breqs[r].pc = "insert"
    /\ LET data == breqs[r].data
           row == [id |-> r, user_id |-> data.user_id,
                   clothing_uuid |-> data.clothing_uuid, quantity |-> data.quantity]
       IN  IF ~Found(user_baskets, data)
           THEN /\ user_baskets' = Append(user_baskets, row)
                /\ breqs' = [breqs EXCEPT ![r].pc = "finished", ![r].status = 200]
                /\ UNCHANGED basket_unique
           ELSE \E unique \in (IF basket_unique = "unknown" THEN {"yes", "no"}
                                ELSE {basket_unique}) :
                  /\ basket_unique' = unique
                  /\ IF unique = "yes"
                     THEN /\ UNCHANGED user_baskets
                          /\ breqs' = [breqs EXCEPT ![r].pc = "finished",
                                                    ![r].status = 500]
                     ELSE /\ user_baskets' = Append(user_baskets, row)
                          /\ breqs' = [breqs EXCEPT ![r].pc = "finished",
                                                    ![r].status = 200]
    /\ UNCHANGED notbasketvars

\* a client sends PUT /put/person-baskets/quantity
BasketPut(r) ==
    /\ breqs[r].pc = "idle"
    /\ \E key \in BasketKeys, quantity \in PutQuantities :
          breqs' = [breqs EXCEPT ![r] =
                      [pc |-> "put", op |-> "put", status |-> 0,
                       data |-> [user_id |-> key[1], clothing_uuid |-> key[2],
                                 quantity |-> quantity]]]
    /\ UNCHANGED <<user_baskets, basket_unique, notbasketvars>>

\* the one statement of update_basket_quantity and its answer
BasketPutStatement(r) ==
    /\ breqs[r].pc = "put"
    /\ LET out == update_basket_quantity(user_baskets, breqs[r].data)
       IN  /\ user_baskets' = out.rows
           /\ breqs' = [breqs EXCEPT ![r].pc = "finished", ![r].status = out.status]
    /\ UNCHANGED <<basket_unique, notbasketvars>>

NextBasket ==
    \E r \in BasketRequests :
        \/ BasketPost(r)
        \/ BasketSelect(r)
        \/ BasketUpdate(r)
        \/ BasketInsert(r)
        \/ BasketPut(r)
        \/ BasketPutStatement(r)

SpecBasket == Init /\ [][NextBasket]_vars

(***************************************************************************)
(* detect_cat.py: get_detector and reset_detector, called one after the    *)
(* other (they are synchronous and run on the event loop's thread).  An    *)
(* instance is its number among the constructed ones; 0 stands for None.   *)
(* loads is whether YOLO(model_path) succeeds in CatDetector.__init__.     *)
(***************************************************************************)
\* (variant: a new CatDetector is constructed on every call)
get_detector_always_new(instance, constructed, loads) ==
    IF loads
    THEN [instance |-> constructed + 1, returned |-> constructed + 1,
          attempted |-> TRUE]
    ELSE [instance |-> instance, exception |-> "RuntimeError", attempted |-> TRUE]

\* if _detector_instance is None: _detector_instance = CatDetector()
\* return _detector_instance
get_detector(instance, constructed, loads) ==
    IF instance # 0
    THEN [instance |-> instance, returned |-> instance, attempted |-> FALSE]
    ELSE IF loads
    THEN [instance |-> constructed + 1, returned |-> constructed + 1,
          attempted |-> TRUE]
    ELSE [instance |-> instance, exception |-> "RuntimeError", attempted |-> TRUE]

notdetvars == <<seqvars, concvars, epvars, basketvars, poolvars, limvars>>

GetDetector ==
    /\ detector_log.calls < MaxDetectorCalls
    /\ \E loads \in BOOLEAN :
          LET out == get_detector(_detector_instance, detector_log.constructed, loads)
              built == out.attempted /\ "returned" \in DOMAIN out
          IN  /\ _detector_instance' = out.instance
              /\ detector_log' =
                    [calls |-> detector_log.calls + 1,
                     attempts |-> detector_log.attempts + (IF out.attempted THEN 1 ELSE 0),
                     constructed |-> detector_log.constructed + (IF built THEN 1 ELSE 0),
                     since_reset |-> detector_log.since_reset
                                       \cup (IF built THEN {out.returned} ELSE {}),
                     last |-> IF "returned" \in DOMAIN out
                              THEN [fn |-> "get_detector", returned |-> out.returned]
                              ELSE [fn |-> "get_detector", exception |-> out.exception]]
    /\ UNCHANGED notdetvars

\* _detector_instance = None
ResetDetector ==
    /\ detector_log.calls < MaxDetectorCalls
    /\ _detector_instance' = 0
    /\ detector_log' = [detector_log EXCEPT !.calls = @ + 1, !.since_reset = {},
                                            !.last = [fn |-> "reset_detector"]]
    /\ UNCHANGED notdetvars

NextDetector == GetDetector \/ ResetDetector

SpecDetector == Init /\ [][NextDetector]_vars

(***************************************************************************)
(* security.py: RateLimiter.is_allowed, called one call after the other    *)
(* with the same max_requests and window_seconds, on a clock that does not *)
(* go back.  A dict is a function on its keys, a list a sequence.          *)
(***************************************************************************)
LimiterMaxRequests == {0, 1, 2}
LimiterWindows == {1, 2}

\* (variant: the limit is reached only above max_requests)
is_allowed_gt(dict, key, t, max_requests, window_seconds) ==
    LET old == IF key \in DOMAIN dict THEN dict[key] ELSE <<>>
        cutoff == t - window_seconds
        kept == SelectSeq(old, LAMBDA req_time : req_time > cutoff)
        set(list) == [k \in DOMAIN dict \cup {key} |-> IF k = key THEN list ELSE dict[k]]
    IN  IF Len(kept) > max_requests
        THEN [requests |-> set(kept), ret |-> FALSE]
        ELSE [requests |-> set(Append(kept, t)), ret |-> TRUE]

\* is_allowed(key, max_requests, window_seconds) at time t
is_allowed(dict, key, t, max_requests, window_seconds) ==
    LET old == IF key \in DOMAIN dict THEN dict[key] ELSE <<>>
        cutoff == t - window_seconds
        kept == SelectSeq(old, LAMBDA req_time : req_time > cutoff)
        set(list) == [k \in DOMAIN dict \cup {key} |-> IF k = key THEN list ELSE dict[k]]
    IN  IF Len(kept) >= max_requests
        THEN [requests |-> set(kept), ret |-> FALSE]
        ELSE [requests |-> set(Append(kept, t)), ret |-> TRUE]

notlimvars == <<seqvars, concvars, epvars, basketvars, poolvars, detvars>>

\* time passes
LimiterTick ==
    /\ now < MaxTime
    /\ now' = now + 1
    /\ UNCHANGED <<requests, limiter_log, notlimvars>>

\* a call of is_allowed; the first call fixes the limits of all the calls
LimiterCall ==
    /\ limiter_log.calls < MaxLimiterCalls
    /\ \E key \in LimiterKeys, max_requests \in LimiterMaxRequests,
          window_seconds \in LimiterWindows :
          /\ limiter_log.calls > 0 =>
                limiter_log.limits = [max_requests |-> max_requests,
                                      window_seconds |-> window_seconds]
          /\ LET out == is_allowed(requests, key, now, max_requests, window_seconds)
             IN  /\ requests' = out.requests
                 /\ limiter_log' =
                       [calls |-> limiter_log.calls + 1,
                        limits |-> [max_requests |-> max_requests,
                                    window_seconds |-> window_seconds],
                        allowed |-> IF out.ret
                                    THEN [limiter_log.allowed EXCEPT ![key] = Append(@, now)]
                                    ELSE limiter_log.allowed,
                        last |-> [key |-> key, ret |-> out.ret]]
    /\ UNCHANGED <<now, notlimvars>>

NextLimiter == LimiterTick \/ LimiterCall

SpecLimiter == Init /\ [][NextLimiter]_vars

(***************************************************************************)
(* database.py: get_db_pool and create_db_pool, called by coroutines of    *)
(* one event loop.  A coroutine runs without interruption from one await   *)
(* to the next, so it takes one step per await: the attempt                *)
(* asyncpg.create_pool (which succeeds or fails) and asyncio.sleep(2).     *)
(* A pool is its number in pools; _pool = 0 stands for None.               *)
(***************************************************************************)
\* for i in range(10)
Attempts == 10

\* (variant: the loop makes one more iteration)
retry_once_more(i) == IF i < Attempts THEN "create" ELSE "raised"

\* after the sleep of iteration i: the next iteration, or past the loop
\* raise RuntimeError("Database not ready")
retry(i) == IF i + 1 < Attempts THEN "create" ELSE "raised"

notpoolvars == <<seqvars, concvars, epvars, basketvars, detvars, limvars>>

\* get_db_pool(): if _pool is None: await create_db_pool(), up to the first
\* await inside asyncpg.create_pool; else return _pool
GetDbPool(c) ==
    /\ coros[c].pc = "idle"
    /\ coros' = [coros EXCEPT ![c] =
                    IF _pool = 0
                    THEN [@ EXCEPT !.pc = "create", !.entry = "get_db_pool"]
                    ELSE [@ EXCEPT !.pc = "done", !.entry = "get_db_pool",
                                   !.returned = _pool]]
    /\ UNCHANGED <<_pool, pools, notpoolvars>>

\* create_db_pool() called directly (application startup)
CreateDbPool(c) ==
    /\ coros[c].pc = "idle"
    /\ coros' = [coros EXCEPT ![c].pc = "create", ![c].entry = "create_db_pool"]
    /\ UNCHANGED <<_pool, pools, notpoolvars>>

\* _pool = await asyncpg.create_pool(...) completes: on success the new pool
\* is stored and create_db_pool returns (get_db_pool then returns _pool); on
\* an exception the coroutine goes to sleep
CreateAttempt(c) ==
    /\ coros[c].pc = "create"
    /\ \E connected \in BOOLEAN :
          IF connected
          THEN /\ pools' = Append(pools, [open |-> TRUE, by |-> c])
               /\ _pool' = Len(pools) + 1
               /\ coros' = [coros EXCEPT ![c].pc = "done", ![c].stored = TRUE,
                                ![c].returned = IF coros[c].entry = "get_db_pool"
                                                THEN Len(pools) + 1 ELSE 0]
          ELSE /\ coros' = [coros EXCEPT ![c].pc = "sleep"]
               /\ UNCHANGED <<_pool, pools>>
    /\ UNCHANGED notpoolvars

\* await asyncio.sleep(2) completes
Sleep(c) ==
    /\ coros[c].pc = "sleep"
    /\ coros' = [coros EXCEPT ![c].pc = retry(coros[c].i),
                              ![c].i = IF retry(coros[c].i) = "create"
                                       THEN @ + 1 ELSE @]
    /\ UNCHANGED <<_pool, pools, notpoolvars>>

NextPool ==
    \E c \in Coroutines :
        \/ GetDbPool(c)
        \/ CreateDbPool(c)
        \/ CreateAttempt(c)
        \/ Sleep(c)

SpecPool == Init /\ [][NextPool]_vars

\* direct calls of create_db_pool only
NextCreate ==
    \E c \in Coroutines :
        \/ CreateDbPool(c)
        \/ CreateAttempt(c)
        \/ Sleep(c)

\* every await of a coroutine completes
SpecCreate ==
    /\ Init /\ [][NextCreate]_vars
    /\ \A c \in Coroutines : WF_vars(CreateAttempt(c)) /\ WF_vars(Sleep(c))

(***************************************************************************)
(* Properties                                                              *)
(***************************************************************************)
\* the class of a step table with strict upper bounds: one class up for
\* every bound that the value has reached
StepClass(v, bounds) ==
    SizeLabels[1 + Cardinality({i \in DOMAIN bounds : bounds[i] <= v})]

\* the three classes of a determine_size call, from its arguments
WeightClass == StepClass(call.args[1], WeightBounds)
ChestClass == StepClass(call.args[2], ChestBounds)
NeckClass == StepClass(call.args[3], NeckBounds)

\* C1: analyze_cat called with a valid bounding box (x2 > x1, y2 > y1), any
\* breed, age category and color, returns a result and raises no exception.
C1_AnalyzeCatTotal ==
    (calls > 0 /\ ValidBox(args.bounding_box)) => pc # "raised"

\* C2: in determine_size, when the weight class equals the neck class and
\* differs from the chest class (a 2-2 tie), the chest class is returned.
C2_TieGoesToChest ==
    (call.fn = "determine_size" /\ WeightClass = NeckClass /\ WeightClass # ChestClass)
        => call.ret.size_category = ChestClass

\* C3: a second call of analyze_cat with identical arguments, in the same or
\* in another run of the program, returns the same result in every field.
C3_Deterministic ==
    (pc = "done" /\ calls > 1 /\ ValidBox(args.bounding_box)) => result = prev

\* C4: every bounding box the vision endpoint takes from detect_cat and hands
\* to analyze_cat satisfies x2 > x1 and y2 > y1.
C4_VisionBoxValid ==
    (caller = "vision" /\ calls > 0) => ValidBox(args.bounding_box)

\* C5: in determine_size a class with strictly more votes than every other
\* class in [weight, chest, chest, neck] is returned; when the neck class
\* equals the chest class the result is the chest class.
C5_MajorityWins ==
    call.fn = "determine_size" =>
        LET votes == <<WeightClass, ChestClass, ChestClass, NeckClass>>
        IN  /\ \A i \in DOMAIN SizeLabels :
                  (\A j \in DOMAIN SizeLabels :
                       j # i => Count(votes, SizeLabels[j]) < Count(votes, SizeLabels[i]))
                  => call.ret.size_category = SizeLabels[i]
            /\ NeckClass = ChestClass => call.ret.size_category = ChestClass

\* C5 witness: neck and chest agree, the weight class differs and comes first
\* in the iteration order of the set, and the chest class is returned
C5_Witness ==
    /\ call.fn = "determine_size"
    /\ NeckClass = ChestClass
    /\ WeightClass # ChestClass
    /\ SetIter(call.sizes, hashseed)[1] = WeightClass
    /\ call.ret.size_category = ChestClass

C7_PostureTable ==
    call.fn = "estimate_posture" =>
        LET w == call.args[1]
            h == call.args[2]
        IN  /\ 5 * w > 8 * h => call.ret = <<"lying", 85>>
            /\ (5 * w > 7 * h /\ 5 * w <= 8 * h) => call.ret = <<"curled", 88>>
            /\ 5 * w < 4 * h => call.ret = <<"sitting", 92>>
            /\ (5 * w >= 4 * h /\ w < h) => call.ret = <<"standing", 100>>
            /\ (w >= h /\ 5 * w <= 7 * h) => call.ret = <<"standing", 98>>
            /\ call.ret[2] > 0 /\ call.ret[2] <= 100
            /\ \A w2 \in Pixels, h2 \in Pixels :
                  w * h2 = w2 * h => estimate_posture(w2, h2) = call.ret

\* C7 witness: ratio exactly 1.6 (8 by 5 pixels) is curled, not lying
C7_Witness ==
    /\ call.fn = "estimate_posture"
    /\ call.args = <<8, 5>>
    /\ call.ret = <<"curled", 88>>

\* C8: estimate_body_condition classifies bmi = weight*1000/body_length^2 by
\* the half-open tiers <3.5 (3, underweight), <4.5 (4, lean), <6.0 (5, ideal),
\* <7.5 (6, overweight), <9.0 (7, overweight), >=9.0 (8, obese); bcs_score is
\* in 3..8.  With the weight in hundredths and the length in tenths,
\* bmi = n/d for n = 1000*weight and d = length^2.
C8_BmiTiers ==
    (call.fn = "estimate_body_condition" /\ call.args[3] # 0) =>
        LET n == 1000 * call.args[2]
            d == call.args[3] * call.args[3]
            got == <<call.ret.bcs_score, call.ret.condition>>
        IN  /\ 2 * n < 7 * d => got = <<3, "underweight">>
            /\ (2 * n >= 7 * d /\ 2 * n < 9 * d) => got = <<4, "lean">>
            /\ (2 * n >= 9 * d /\ n < 6 * d) => got = <<5, "ideal">>
            /\ (n >= 6 * d /\ 2 * n < 15 * d) => got = <<6, "overweight">>
            /\ (2 * n >= 15 * d /\ n < 9 * d) => got = <<7, "overweight">>
            /\ n >= 9 * d => got = <<8, "obese">>
            /\ call.ret.bcs_score \in 3..8

\* C8 witness: a bmi of exactly 6.0 is overweight with bcs 6
C8_Witness ==
    /\ call.fn = "estimate_body_condition"
    /\ call.args[3] # 0
    /\ 1000 * call.args[2] = 6 * call.args[3] * call.args[3]
    /\ call.ret.bcs_score = 6
    /\ call.ret.condition = "overweight"
    /\ call.ret.bmi = 600

\* C9: for a valid bounding box estimate_body_metrics returns chest_cm,
\* neck_cm, waist_cm, body_length_cm and leg_length_cm that are all >= 0.
C9_NonNegative ==
    ("chest_cm" \in DOMAIN metrics /\ ValidBox(args.bounding_box)) =>
        /\ metrics.chest_cm >= 0
        /\ metrics.neck_cm >= 0
        /\ metrics.waist_cm >= 0
        /\ metrics.body_length_cm >= 0
        /\ metrics.leg_length_cm >= 0

\* C9 witness: the metrics of a valid tall box, with a positive leg length and
\* a body length that rounds to 0.0
C9_Witness ==
    /\ pc = "estimate_weight"
    /\ ValidBox(args.bounding_box)
    /\ metrics.leg_length_cm > 0
    /\ metrics.chest_cm > 0
    /\ metrics.body_length_cm = 0

\* C10: every output of estimate_body_metrics, and the measurements of every
\* analyze_cat result, satisfy neck_cm = round(chest_cm*0.62, 1),
\* waist_cm = round(chest_cm*0.85, 1), back_length_cm =
\* round(body_length_cm*0.75, 1), on the rounded chest_cm and body_length_cm.
DerivedRatios(m) ==
    /\ m.neck_cm = RoundDiv(62 * m.chest_cm, 100)
    /\ m.waist_cm = RoundDiv(85 * m.chest_cm, 100)
    /\ m.back_length_cm = RoundDiv(75 * m.body_length_cm, 100)

C10_DerivedRatios ==
    /\ "chest_cm" \in DOMAIN metrics => DerivedRatios(metrics)
    /\ pc = "done" => DerivedRatios(result.measurements)

\* C10 witness: the result for the 300 by 300 box: chest 71.0, neck 44.0,
\* waist 60.4, body length 34.6
C10_Witness ==
    /\ pc = "done"
    /\ args.bounding_box = <<100, 150, 400, 450>>
    /\ result.measurements.chest_cm = 710
    /\ result.measurements.neck_cm = 440
    /\ result.measurements.waist_cm = 604
    /\ result.measurements.body_length_cm = 346

\* 100 * 90000 times the confidence formula
\* sizeRatio*0.5 + aspectScore*0.3 + postureClarity*0.2 for a w by h box of
\* the given posture: sizeRatio = min(1, w*h/90000), aspectScore = 1.0 if
\* 0.5 < w/h < 2.0 else 0.6, postureClarity = 0.9 if standing or sitting else 0.7
ConfidenceFormula(w, h, posture) ==
    50 * Min(90000, w * h)
      + 90000 * (3 * (IF h < 2 * w /\ w < 2 * h THEN 10 ELSE 6)
                   + 2 * (IF posture \in {"standing", "sitting"} THEN 9 ELSE 7))

\* the threshold class of a confidence n/d hundredths
FlagClass(n, d) ==
    IF n > 85 * d THEN "excellent"
    ELSE IF n > 75 * d THEN "good"
    ELSE IF n > 60 * d THEN "medium"
    ELSE "poor"

\* the confidence formula of the box of an estimate_body_metrics call
CallConfidence ==
    ConfidenceFormula(Max(call.args[1][3] - call.args[1][1], 1),
                      Max(call.args[1][4] - call.args[1][2], 1),
                      call.ret.posture)

\* C11: the quality_flag returned by estimate_body_metrics is the threshold
\* class (> 0.85 excellent, > 0.75 good, > 0.6 medium, else poor) of the
\* confidence formula sizeRatio*0.5 + aspectScore*0.3 + postureClarity*0.2.
C11_FlagOfFormula ==
    call.fn = "estimate_body_metrics" =>
        call.ret.quality_flag = FlagClass(CallConfidence, 90000)

\* C11 (amended): the quality_flag is the threshold class of the returned
\* confidence, which is the formula rounded to 2 decimals.
C11_FlagOfRounded ==
    call.fn = "estimate_body_metrics" =>
        /\ call.ret.quality_flag = FlagClass(call.ret.confidence, 1)
        /\ 2 * (call.ret.confidence * 90000 - CallConfidence) <= 90000
        /\ 2 * (CallConfidence - call.ret.confidence * 90000) <= 90000

\* C11 witness: the 240 by 280 box has formula value 0.8533, returned
\* confidence 0.85 and flag good
C11_Witness ==
    /\ call.fn = "estimate_body_metrics"
    /\ call.args = <<(<<0, 0, 240, 280>>)>>
    /\ CallConfidence > 85 * 90000
    /\ call.ret.confidence = 85
    /\ call.ret.quality_flag = "good"

\* the age modifier the statement gives, in hundredths; 1.0 for any other string
StatedAgeModifier(age_category) ==
    CASE age_category = "kitten" -> 30
      [] age_category = "young" -> 70
      [] age_category = "adult" -> 100
      [] age_category = "senior" -> 95
      [] OTHER -> 100

\* C12: estimate_weight returns round(chest_cm^2 * body_length_cm / 3000 *
\* breedModifier * ageModifier, 2) with the age modifiers kitten 0.3, young
\* 0.7, adult 1.0, senior 0.95; a breed or age category that is not a key of
\* its table uses 1.0 and raises no error.  For a chest of c and a length of
\* l whole cm the weight in hundredths is n / 300000 with
\* n = c^2 * l * breed * age (modifiers in hundredths), and the returned value
\* is within half a hundredth of it.
C12_WeightFormula ==
    call.fn = "estimate_weight" =>
        LET c == call.args[1] \div 10
            l == call.args[2] \div 10
            breedModifier == IF call.args[3] \in DOMAIN BREED_MODIFIER
                             THEN BREED_MODIFIER[call.args[3]] ELSE 100
            n == c * c * l * breedModifier * StatedAgeModifier(call.args[4])
        IN  /\ call.ret \in Nat
            /\ 2 * (call.ret * 300000 - n) <= 300000
            /\ 2 * (n - call.ret * 300000) <= 300000

\* C12 witness: a 50 cm chest and a 50 cm length with a breed and an age
\* category that are in neither table give 41.67 kg
C12_Witness ==
    /\ call.fn = "estimate_weight"
    /\ call.args = <<500, 500, "tabby", "elder">>
    /\ call.ret = 4167

\* C13: the result of estimate_body_condition does not depend on chest_cm:
\* a call with the same weight and body_length_cm and any other chest_cm
\* returns the same bcs_score, condition, description and bmi.
C13_ChestIrrelevant ==
    call.fn = "estimate_body_condition" =>
        \A chest_cm \in UnitChests :
            estimate_body_condition(chest_cm, call.args[2], call.args[3]) = call.ret

\* C13 witness: a call with the 30 cm chest that returns a tier, the same as
\* the call with the 50 cm chest
C13_Witness ==
    /\ call.fn = "estimate_body_condition"
    /\ call.args[1] = 300
    /\ call.args[3] = 100
    /\ call.ret.bcs_score = 5
    /\ estimate_body_condition(500, call.args[2], call.args[3]) = call.ret

\* the expected color, by one pass over the characters: a separator ends the
\* segment, blanks inside a segment are held back until its next character
\* (blanks at either end of a segment are never put out), and the first
\* character of every segment but the first is preceded by "_"
RECURSIVE ScanColor(_, _, _, _)
ScanColor(s, out, held, inSegment) ==
    IF s = <<>> THEN out
    ELSE IF Head(s) \in {",", "_"} THEN ScanColor(Tail(s), out, <<>>, FALSE)
    ELSE IF Head(s) \in Whitespace
         THEN ScanColor(Tail(s), out, IF inSegment THEN Append(held, Head(s)) ELSE <<>>,
                        inSegment)
    ELSE ScanColor(Tail(s),
                   (IF ~inSegment /\ out # <<>> THEN Append(out, "_") ELSE out)
                       \o held \o <<LowerChar(Head(s))>>,
                   <<>>, TRUE)

ExpectedColor(cat_color) ==
    IF ~cat_color.present THEN Unknown
    ELSE IF \A i \in DOMAIN cat_color.chars :
                cat_color.chars[i] \in {",", "_"} \cup Whitespace
         THEN Unknown
         ELSE ScanColor(cat_color.chars, <<>>, <<>>, FALSE)

AsciiUpper == {UpperCase[i] : i \in DOMAIN UpperCase}

\* the shape of a canonical color: no ",", no letter of the set upper, no "_"
\* at either end, no two adjacent "_"
Canonical(out, upper) ==
    /\ \A i \in DOMAIN out : out[i] # "," /\ out[i] \notin upper
    /\ out # <<>>
    /\ out[1] # "_" /\ out[Len(out)] # "_"
    /\ \A i \in 1..(Len(out) - 1) : ~(out[i] = "_" /\ out[i + 1] = "_")

C15_Example ==
    (/\ args.bounding_box = <<100, 150, 400, 450>>
     /\ args.breed = "unknown"
     /\ args.age_category = "adult"
     /\ "chest_cm" \in DOMAIN metrics) =>
        /\ metrics.posture = "standing"
        /\ estimate_posture(bbox_w(args.bounding_box), bbox_h(args.bounding_box))
               = <<"standing", 98>>
        /\ torso_ratio[metrics.posture] = 13
        /\ metrics.body_length_cm = 346
        /\ metrics.chest_cm = 710
        /\ pc = "done" => /\ result.posture = "standing"
                          /\ result.measurements.body_length_cm = 346
                          /\ result.measurements.chest_cm = 710

\* C15 witness: analyze_cat has computed the metrics of that box for an
\* unknown adult and is about to estimate the weight
C15_Witness ==
    /\ pc = "estimate_weight"
    /\ args.bounding_box = <<100, 150, 400, 450>>
    /\ args.breed = "unknown"
    /\ args.age_category = "adult"
    /\ metrics.posture = "standing"
    /\ metrics.chest_cm = 710

\* C16: estimate_body_metrics performs no division by zero for any bounding
\* box, degenerate ones (x2 <= x1 or y2 <= y1) included: the width and the
\* height are floored to 1 before any ratio is taken and the effective height
\* is floored to 1 (20 twentieths) before pixel_to_cm is computed.
C16_NoZeroDivision ==
    call.fn = "estimate_body_metrics" =>
        /\ "exception" \notin DOMAIN call.ret
        /\ bbox_w(call.args[1]) >= 1
        /\ bbox_h(call.args[1]) >= 1
        /\ \A i \in DOMAIN metrics_divisors(call.args[1]) :
               metrics_divisors(call.args[1])[i] > 0
        /\ metrics_divisors(call.args[1])[2] >= 20

\* C16 witness: the box with x2 = x1 and y2 < y1 is measured as a 1 by 1 box
\* whose effective height 0.65 is floored to 1
C16_Witness ==
    /\ call.fn = "estimate_body_metrics"
    /\ call.args[1][3] = call.args[1][1]
    /\ call.args[1][4] < call.args[1][2]
    /\ metrics_divisors(call.args[1]) = <<1, 20, 300 * 300, 1>>
    /\ "leg_length_cm" \in DOMAIN call.ret
    /\ call.ret.leg_length_cm = 88

\* what the call of thread t does when it runs alone: the exception it
\* raises or the value it returns
Alone(t) ==
    LET alone == analyze_cat_alone(threads[t].args, threads[t].passed, hashseed)
    IN  IF "exception" \in DOMAIN alone THEN alone ELSE [returned |-> alone]

\* C17: concurrent invocations of analyze_cat do not interfere: under any
\* interleaving every call returns (or raises) what it does when run alone,
\* and no call modifies BREED_MODIFIER, AGE_WEIGHT_MODIFIER, the list passed
\* as its bounding box or any other shared state.
C17_NoInterference ==
    /\ modtables = [BREED_MODIFIER |-> BREED_MODIFIER,
                    AGE_WEIGHT_MODIFIER |-> AGE_WEIGHT_MODIFIER]
    /\ \A t \in Threads :
          /\ threads[t].pc # "idle" =>
                heap[threads[t].args.bounding_box] = threads[t].passed
          /\ threads[t].pc = "done" => Alone(t) = [returned |-> threads[t].result]
          /\ threads[t].pc = "raised" => Alone(t) = [exception |-> threads[t].error]

\* C17 witness: thread 2 was called on the same list with another breed while
\* thread 1 was inside analyze_cat, and both have returned
C17_Witness ==
    /\ threads[1].pc = "done"
    /\ threads[2].pc = "done"
    /\ threads[2].overlapped
    /\ threads[1].args.bounding_box = threads[2].args.bounding_box
    /\ threads[1].args.breed # threads[2].args.breed
    /\ threads[1].result.weight_kg # threads[2].result.weight_kg

\* C18: analyze_cat returns firebase_uid, breed, age_category and bounding_box
\* exactly as passed in (no default replaces a breed or age category unknown
\* to the tables), the normalised color as cat_color, and always
\* analysis_method = "cv_heuristic_v5_professional", analysis_version = "5.0".
C18_Passthrough ==
    pc = "done" =>
        /\ result.firebase_uid = args.firebase_uid
        /\ result.breed = args.breed
        /\ result.age_category = args.age_category
        /\ result.bounding_box = args.bounding_box
        /\ result.cat_color = process_cat_color(args.cat_color)
        /\ result.analysis_method = "cv_heuristic_v5_professional"
        /\ result.analysis_version = "5.0"

\* C18 witness: a call for the second user with a breed and an age category
\* that are in neither table and the color "Orange, White" has returned
C18_Witness ==
    /\ pc = "done"
    /\ args.firebase_uid = "uid_2"
    /\ args.breed = "tabby"
    /\ args.age_category = "elder"
    /\ result.breed = "tabby"
    /\ result.age_category = "elder"
    /\ result.cat_color = <<"o", "r", "a", "n", "g", "e", "_", "w", "h", "i", "t", "e">>

\* the tier table applied to a bmi given in hundredths
StatedTier(bmi) ==
    IF bmi < 350 THEN <<3, "underweight">>
    ELSE IF bmi < 450 THEN <<4, "lean">>
    ELSE IF bmi < 600 THEN <<5, "ideal">>
    ELSE IF bmi < 750 THEN <<6, "overweight">>
    ELSE IF bmi < 900 THEN <<7, "overweight">>
    ELSE <<8, "obese">>

\* C19: in every result of estimate_body_condition the reported bmi (rounded
\* to 2 decimals) agrees with the reported tier: classifying the returned bmi
\* by the tier table gives the returned bcs_score and condition.
C19_BmiAgreesWithTier ==
    (call.fn = "estimate_body_condition" /\ "bmi" \in DOMAIN call.ret) =>
        StatedTier(call.ret.bmi) = <<call.ret.bcs_score, call.ret.condition>>

\* the measurements of a result of estimate_body_metrics
Measurements(m) ==
    <<m.posture, m.chest_cm, m.neck_cm, m.waist_cm, m.body_length_cm,
      m.back_length_cm, m.leg_length_cm>>

\* 25 * 0.35 / torsoRatio, rounded to tenths
LegOfPosture == [lying |-> 159, curled |-> 175, sitting |-> 146, standing |-> 135]

\* height * torsoRatio >= 1 for the box (the torso ratio is in twentieths)
TorsoAtLeastOne(bbox) ==
    bbox_h(bbox) * torso_ratio[estimate_posture(bbox_w(bbox), bbox_h(bbox))[1]] >= 20

\* C20: the measurements do not depend on the pixel size of the box: two
\* boxes with the same width/height ratio, both with height * torsoRatio >= 1,
\* get the same posture, chest, neck, waist, body length, back length and leg
\* length from estimate_body_metrics, and leg_length_cm is a constant per
\* posture.
C20_ScaleFree ==
    (/\ call.fn = "estimate_body_metrics"
     /\ ValidBox(call.args[1])
     /\ TorsoAtLeastOne(call.args[1])) =>
        /\ call.ret.leg_length_cm = LegOfPosture[call.ret.posture]
        /\ \A other \in UnitBoxes :
              (/\ ValidBox(other)
               /\ TorsoAtLeastOne(other)
               /\ bbox_w(other) * bbox_h(call.args[1])
                     = bbox_w(call.args[1]) * bbox_h(other))
              => Measurements(estimate_body_metrics(other)) = Measurements(call.ret)

\* the floored width / height ratio of the box is at least 0.8: the posture is
\* not sitting
NotSitting(bbox) == 10 * bbox_w(bbox) >= 8 * Max(bbox_h(bbox), 1)

\* C21: for every bounding box whose floored width / height ratio is >= 0.8
\* and any breed and age category, analyze_cat returns (it does not raise)
\* size_category XL, with chest_cm at least 45 and neck_cm at least 28.
C21_WideBoxIsXL ==
    (calls > 0 /\ NotSitting(args.bounding_box)) =>
        /\ pc # "raised"
        /\ pc = "done" =>
              /\ result.posture # "sitting"
              /\ result.measurements.chest_cm >= 450
              /\ result.measurements.neck_cm >= 280
              /\ result.size_category = "XL"

\* C21 witness: a call with a box that is not sitting has returned XL although
\* its weight vote is for another size
C21_Witness ==
    /\ pc = "done"
    /\ NotSitting(args.bounding_box)
    /\ result.measurements.chest_cm >= 450
    /\ result.measurements.neck_cm >= 280
    /\ weight_size(result.weight_kg) # "XL"
    /\ result.size_category = "XL"

\* the cats among the boxes of a direct detect_cat call
CallCats == SelectSeq(call.args[2], LAMBDA b : b.cls = cat_class_id)

\* the highest confidence among the detected cats, in units of 0.00001
HighestConfidence ==
    CHOOSE c \in {CallCats[i].conf : i \in DOMAIN CallCats} :
        \A i \in DOMAIN CallCats : CallCats[i].conf <= c

\* the record of a direct detect_cat call is consistent: is_cat exactly when
\* bounding_box is a box of 4 coordinates and error is null, then with the
\* number of detected cats (>= 1); every failure path gives the failure record
DetectRecordConsistent ==
    LET ret == call.ret
        failed == call.args[1] # "ok" \/ CallCats = <<>>
    IN  /\ DOMAIN ret = {"is_cat", "confidence", "bounding_box",
                         "total_cats_detected", "error"}
        /\ ret.is_cat <=> (Len(ret.bounding_box) = 4 /\ ret.error = "None")
        /\ ret.is_cat <=> ~failed
        /\ ret.is_cat =>
              /\ ret.total_cats_detected = Len(CallCats)
              /\ ret.total_cats_detected >= 1
        /\ failed =>
              /\ ret.confidence = 0
              /\ ret.bounding_box = <<>>
              /\ ret.total_cats_detected = 0
              /\ ret.error # "None"

\* C22: detect_cat returns a consistent record on every path and never
\* raises; when is_cat is true, confidence is the highest confidence among the
\* detected cats.
C22_DetectRecord ==
    call.fn = "detect_cat" =>
        /\ DetectRecordConsistent
        /\ call.ret.is_cat => 10 * call.ret.confidence = HighestConfidence

\* C22 as amended: ... when is_cat is true, confidence is the highest
\* confidence among the detected cats rounded to 4 decimal places.
C22_DetectRecordRounded ==
    call.fn = "detect_cat" =>
        /\ DetectRecordConsistent
        /\ call.ret.is_cat =>
              /\ 10 * call.ret.confidence - HighestConfidence <= 5
              /\ HighestConfidence - 10 * call.ret.confidence <= 5

\* C22 witness: of two detected cats the second has the higher confidence,
\* 0.53125, and detect_cat has returned 0.5312 with the second cat's box
C22_Witness ==
    /\ call.fn = "detect_cat"
    /\ call.args[1] = "ok"
    /\ Len(call.args[2]) = 2
    /\ call.args[2][1].cls = cat_class_id
    /\ call.args[2][1].conf = 50000
    /\ call.args[2][2].cls = cat_class_id
    /\ call.args[2][2].conf = 53125
    /\ call.args[2][1].xyxy # call.args[2][2].xyxy
    /\ call.ret.is_cat
    /\ call.ret.confidence = 5312
    /\ call.ret.total_cats_detected = 2

\* C23: once the downloaded image has been written to /tmp/cat_images, the
\* file no longer exists when the request has finished, whether it ends with
\* the no-cat response, the success response, or an exception from detection,
\* analysis or the database insert.
C23_TempFileRemoved ==
    \A r \in Requests :
        (reqs[r].pc = "finished" /\ reqs[r].written) => temp_path(r) \notin files

\* C23 witness: one request has finished with the no-cat response and another
\* with the exception of the insert, both after writing their files, and no
\* file is left
C23_Witness ==
    /\ reqs[1].pc = "finished" /\ reqs[1].written
    /\ reqs[1].status = 200 /\ ~reqs[1].detect_result.is_cat
    /\ reqs[2].pc = "finished" /\ reqs[2].written
    /\ reqs[2].status = 500 /\ reqs[2].analysis_result # NoResult
    /\ files = {}

\* the rows of table cat that request r inserted
RowsOf(r) == SelectSeq(cat_table, LAMBDA row : row.request = r)

\* the analysis of request r completed (so detection had reported a cat)
Analyzed(r) == reqs[r].detect_result.is_cat /\ reqs[r].analysis_result # NoResult

\* a row is inserted only after detection reported a cat and analysis
\* completed; a request that has finished without a completed analysis has
\* inserted nothing; a request that has finished with the success response
\* has inserted exactly one row, whose id the response carries
InsertOnlyAfterAnalysis ==
    \A r \in Requests :
        /\ RowsOf(r) # <<>> => Analyzed(r)
        /\ (reqs[r].pc = "finished" /\ ~Analyzed(r)) => RowsOf(r) = <<>>
        /\ (reqs[r].pc = "finished" /\ reqs[r].status = 200 /\ Analyzed(r)) =>
              /\ Len(RowsOf(r)) = 1
              /\ reqs[r].pending.value.id = RowsOf(r)[1].id

\* C24: a cat row is inserted only after detection reported is_cat true and
\* analysis completed; a request whose detection reports no cat, or whose
\* download, detection or analysis fails, performs no insert; and a request
\* whose analysis completed is, when the database is ready, a successful
\* request: it performs exactly one insert before it returns the response
\* carrying that row's id.
C24_InsertOnSuccess ==
    /\ InsertOnlyAfterAnalysis
    /\ \A r \in Requests :
          (reqs[r].pc = "finished" /\ Analyzed(r)
              /\ reqs[r].pending # [kind |-> "exception", exception |-> "RuntimeError"])
          => /\ reqs[r].status = 200
             /\ Len(RowsOf(r)) = 1

\* the sum of the quantities of the requests in S
RECURSIVE SumOfQuantities(_)
SumOfQuantities(S) ==
    IF S = {} THEN 0
    ELSE LET r == CHOOSE x \in S : TRUE
         IN  breqs[r].data.quantity + SumOfQuantities(S \ {r})

\* the rows of the pair key
RowsOfPair(key) ==
    SelectSeq(user_baskets,
              LAMBDA row : row.user_id = key[1] /\ row.clothing_uuid = key[2])

\* the post requests for the pair key
PostsFor(key) ==
    {r \in BasketRequests :
        /\ breqs[r].op = "post"
        /\ breqs[r].data.user_id = key[1]
        /\ breqs[r].data.clothing_uuid = key[2]}

\* the quantity the pair key had before the requests
QuantityBefore(key) ==
    LET before == SelectSeq(InitialBasket,
                      LAMBDA row : row.user_id = key[1] /\ row.clothing_uuid = key[2])
    IN  IF before = <<>> THEN 0 ELSE before[1].quantity

\* C25: after any interleaving of concurrent post_person_baskets requests for
\* the same (user_id, clothing_uuid), with no other request running, the
\* basket holds at most one row for the pair and its quantity is the sum of
\* the quantities of all the requests plus the quantity it had before.
C25_ConcurrentPostsAddUp ==
    (\A r \in BasketRequests : breqs[r].pc = "finished" /\ breqs[r].op = "post") =>
        \A key \in BasketKeys :
            PostsFor(key) # {} =>
                /\ Len(RowsOfPair(key)) = 1
                /\ RowsOfPair(key)[1].quantity =
                      QuantityBefore(key) + SumOfQuantities(PostsFor(key))

C27_OnePool ==
    (\A c \in Coroutines : coros[c].entry \in {"none", "get_db_pool"}) =>
        /\ Len(pools) <= 1
        /\ \A c, d \in Coroutines :
              (coros[c].pc = "done" /\ coros[d].pc = "done") =>
                  coros[c].returned = coros[d].returned
        /\ \A p \in DOMAIN pools : pools[p].open => _pool = p

\* the pools that the call of coroutine c has created
PoolsBy(c) == {p \in DOMAIN pools : pools[p].by = c}

\* a call of create_db_pool makes at most 10 attempts; it has returned only
\* after storing the one pool of its first successful attempt, and it has
\* raised only after 10 failed attempts, having stored no pool
CreateOutcome(c) ==
    /\ coros[c].i + 1 <= 10
    /\ Cardinality(PoolsBy(c)) <= 1
    /\ coros[c].stored <=> PoolsBy(c) # {}
    /\ coros[c].stored => coros[c].pc = "done"
    /\ (coros[c].pc = "done" /\ coros[c].entry = "create_db_pool") => coros[c].stored
    /\ coros[c].pc = "raised" => (coros[c].i + 1 = 10 /\ ~coros[c].stored)

\* C30: create_db_pool always terminates after at most 10 connection
\* attempts: it stores the pool and returns at the first successful attempt,
\* and after 10 consecutive failed attempts it raises RuntimeError without
\* having stored a pool.
C30_CreateTerminates ==
    /\ [](\A c \in Coroutines : CreateOutcome(c))
    /\ \A c \in Coroutines :
          (coros[c].pc = "create") ~> (coros[c].pc \in {"done", "raised"})

\* C30 witness: one call has returned with its pool after three failed
\* attempts, and another has raised after ten
C30_Witness ==
    /\ coros[1].entry = "create_db_pool" /\ coros[1].pc = "done"
    /\ coros[1].i = 3 /\ coros[1].stored /\ pools[_pool].by = 1
    /\ coros[2].entry = "create_db_pool" /\ coros[2].pc = "raised"
    /\ coros[2].i = 9 /\ ~coros[2].stored

\* C28: across any sequence of get_detector and reset_detector calls, between
\* two consecutive resets at most one CatDetector is successfully constructed
\* and every successful get_detector call returns that same instance; a
\* failed construction stores nothing, so the next get_detector call attempts
\* construction again.
C28_DetectorSingleton ==
    /\ [](/\ Cardinality(detector_log.since_reset) <= 1
          /\ (detector_log.last.fn = "get_detector"
                 /\ "returned" \in DOMAIN detector_log.last) =>
                detector_log.since_reset = {detector_log.last.returned}
          /\ (detector_log.last.fn = "get_detector"
                 /\ "exception" \in DOMAIN detector_log.last) =>
                (_detector_instance = 0 /\ detector_log.since_reset = {}))
    /\ [][(detector_log.last.fn = "get_detector"
             /\ "exception" \in DOMAIN detector_log.last
             /\ detector_log'.last.fn = "get_detector")
           => detector_log'.attempts = detector_log.attempts + 1]_vars

\* C28 witness: after a failed construction and a successful one, a reset and
\* a second successful construction, get_detector has returned the second
\* instance again without constructing
C28_Witness ==
    /\ detector_log.calls = 5
    /\ detector_log.attempts = 3
    /\ detector_log.constructed = 2
    /\ detector_log.since_reset = {2}
    /\ detector_log.last = [fn |-> "get_detector", returned |-> 2]
    /\ _detector_instance = 2

\* the number of allowed calls for key in the window of window_seconds seconds
\* that ends at second t, (t - window_seconds, t]
AllowedInWindow(key, t) ==
    Cardinality({i \in DOMAIN limiter_log.allowed[key] :
                    /\ limiter_log.allowed[key][i] > t - limiter_log.limits.window_seconds
                    /\ limiter_log.allowed[key][i] <= t})

\* the timestamps recorded for key
Recorded(dict, key) == IF key \in DOMAIN dict THEN dict[key] ELSE <<>>

\* C29: for any key and any sequence of is_allowed calls with fixed
\* max_requests and window_seconds, at most max_requests calls are allowed
\* within any time window of window_seconds; a denied call records no
\* timestamp; and calls for one key never affect the outcome for another key
\* (a call is allowed exactly when fewer than max_requests calls for its own
\* key were allowed in the window that ends with it, and it leaves the
\* timestamps of the other keys alone).
C29_RateLimit ==
    /\ [](\A key \in LimiterKeys : \A t \in 0..MaxTime :
             AllowedInWindow(key, t) <= limiter_log.limits.max_requests)
    /\ [][limiter_log'.calls = limiter_log.calls + 1 =>
            LET key == limiter_log'.last.key
            IN  /\ limiter_log'.last.ret <=>
                      AllowedInWindow(key, now) < limiter_log'.limits.max_requests
                /\ ~limiter_log'.last.ret =>
                      /\ Len(Recorded(requests', key)) <= Len(Recorded(requests, key))
                      /\ \A i \in DOMAIN Recorded(requests', key) :
                            \E j \in DOMAIN Recorded(requests, key) :
                                Recorded(requests', key)[i] = Recorded(requests, key)[j]
                /\ \A other \in LimiterKeys \ {key} :
                      Recorded(requests', other) = Recorded(requests, other)
          ]_vars

\* C29 witness: with max_requests 1 and a window of 2 seconds, k1 was allowed
\* at second 0, k2 at second 1 while k1 was denied, k1 again at second 2, and
\* the call for k1 at second 3 has been denied
C29_Witness ==
    /\ limiter_log.calls = 5
    /\ limiter_log.limits = [max_requests |-> 1, window_seconds |-> 2]
    /\ limiter_log.allowed["k1"] = <<0, 2>>
    /\ limiter_log.allowed["k2"] = <<1>>
    /\ now = 3
    /\ limiter_log.last = [key |-> "k1", ret |-> FALSE]
    /\ requests["k1"] = <<2>>

====
